---- MODULE Spec2Model ----
(***************************************************************************)
(* Model of the product scraper (src/src/scraper.js) and of the deal       *)
(* aggregation endpoint (src/server.js).                                   *)
(*                                                                         *)
(* Spec      : one call of scrapeProducts: the source lookup, then either  *)
(*             the amazon-search path (option validation, the sequential   *)
(*             pagination loop, the optional detail enrichment under       *)
(*             p-limit, normalisation) or the single fetch of a            *)
(*             predefined source.                                          *)
(* SpecLive  : Spec, with every enabled step eventually taken.             *)
(* SpecDeals : one GET /api/deals request over the five SOURCES.           *)
(* SpecPure  : one call of a function on one argument: fetchHtml on a      *)
(*             relay response, parseDummyJsonProducts on a feed,           *)
(*             evaluateDeal on a deal, parsePrice on a text,               *)
(*             parseProductDetail on a detail document.                    *)
(*                                                                         *)
(* JavaScript numbers are kept on a fixed-point grid of 1/Den, so that     *)
(* fractional option values (--number 2.5) are inputs of the model.        *)
(***************************************************************************)
EXTENDS Integers, Sequences, FiniteSets, TLC

\* ------------------------------------------------------------------ bounds
\* Denominator of the fixed-point grid JavaScript numbers are drawn from.
Den == 2
\* Largest number of cards the upstream puts on one search page.
MaxPageSize == 2
\* Largest number of cards the upstream holds for a keyword.
MaxTotal == 22
\* Largest upstream explored with detail enrichment switched on.
MaxDetailTotal == 3

\* ------------------------------------------------------- program constants
MAX_PRODUCTS == 500
MAX_PAGES == 20

\* ------------------------------------------------------ JavaScript values
\* A JavaScript value handed in as a numeric option.
Num(h) == [k |-> "number", v |-> h]
Undefined == [k |-> "undefined", v |-> 0]
Text == [k |-> "text", v |-> 0]
Infinity == [k |-> "Infinity", v |-> 0]
NaN == [k |-> "NaN", v |-> 0]

Null == [k |-> "null", v |-> 0]
\* The empty string where a number may stand.
Blank == [k |-> "empty-string", v |-> 0]
\* !value on a price
FalsyNumber(value) == value.k # "number" \/ value.v = 0

\* String sentinels for null and for a field the object does not have.
NULL == "<null>"
ABSENT == "<absent>"
Falsy(s) == s \in {"", NULL, ABSENT}
\* a || b on string-valued fields
OrElse(a, b) == IF Falsy(a) THEN b ELSE a

Max(a, b) == IF a >= b THEN a ELSE b
Min(a, b) == IF a <= b THEN a ELSE b

\* value ?? fallback
Coalesce(value, fallback) == IF value.k = "undefined" THEN fallback ELSE value

\* Number(value): non-numeric text converts to NaN.
ToNumber(value) == IF value.k \in {"text", "undefined"} THEN NaN ELSE value

\* Mutant: the upper limit is not applied.
clampNumber_NoUpper(value, min, max) ==
  LET numeric == ToNumber(value)
  IN  IF numeric.k # "number" THEN min ELSE Max(min, numeric.v)

\* clampNumber(value, min, max); min, max and the result are in 1/Den.
clampNumber(value, min, max) ==
  LET numeric == ToNumber(value)
  IN  IF numeric.k # "number" THEN min ELSE Max(min, Min(max, numeric.v))

\* (s || '').trim() on the option strings of the model
Trim(s) == IF s \in {" ", ABSENT} THEN "" ELSE s


\* ------------------------------------------------------------- the upstream
\* What the search site holds for the keyword: total cards, perPage a page.
Sites == [perPage : 1..MaxPageSize, total : 0..MaxTotal]
SmallSites == {s \in Sites : s.total <= MaxDetailTotal}

\* Number of result cards on search page p of site s.
CardsOnPage(s, p) == Min(s.perPage, Max(0, s.total - (p - 1) * s.perPage))

\* What parsePrice returns for the price and the list price of the cards of
\* the model, in cents: a number, or null where the card shows no price.
CardPrices ==
  <<[price |-> Num(1999), listPrice |-> Num(2999)],
    [price |-> Num(1999), listPrice |-> Null],
    [price |-> Num(0), listPrice |-> Num(499)],
    [price |-> Null, listPrice |-> Num(2999)],
    [price |-> Num(2999), listPrice |-> Num(1999)],
    [price |-> Num(1000), listPrice |-> Num(0)]>>

\* The product parseSearchResults builds from card i of page p.
Card(p, i) ==
  LET shown == CardPrices[((p + i) % Len(CardPrices)) + 1]
      price == shown.price
      \* parsePrice(...) || null
      originalPrice == IF FalsyNumber(shown.listPrice) THEN Null ELSE shown.listPrice
  IN
  [asin |-> <<p, i>>,
   price |-> price,
   beforeDiscount |-> originalPrice,
   isDiscounted |-> /\ ~FalsyNumber(originalPrice)
                    /\ ~FalsyNumber(price)
                    /\ originalPrice.v > price.v,
   thumbnail |-> "thumb",
   highResImage |-> IF (p + i) % 2 = 0 THEN "srcset-hires" ELSE "",
   shortDescription |-> IF i % 2 = 1 THEN "card-text" ELSE "",
   fullDescription |-> ABSENT,
   detailError |-> ABSENT]

\* parseSearchResults(html, host) on the markup of page p of site s.
parseSearchResults(s, p) == [i \in 1..CardsOnPage(s, p) |-> Card(p, i)]

\* What the relay answers to one fetchHtml call.
RelayOutcomes == {"ok", "http-error", "empty-body"}
\* fetchHtml throws on a non-2xx status and on an empty trimmed body.
fetchHtmlThrows(outcome) == outcome # "ok"
fetchHtmlError(outcome) ==
  IF outcome = "http-error" THEN "ScrapingAnt request failed with status"
  ELSE "ScrapingAnt returned an empty response body"

\* What parseProductDetail returns for the detail pages of the model.
DetailPages ==
  {[shortDescription |-> "bullets", fullDescription |-> "description",
    highResImage |-> "landing-hires"],
   [shortDescription |-> "", fullDescription |-> "", highResImage |-> NULL]}

\* No detail page: the fetch threw before parseProductDetail ran.
NoDetail == [shortDescription |-> ABSENT, fullDescription |-> ABSENT,
             highResImage |-> ABSENT]

\* ------------------------------------------------------------------ inputs
NumberInputs ==
  {Undefined, Text, Infinity, Num(-Den), Num(0), Num(1), Num(Den),
   Num(2 * Den + 1), Num(3 * Den), Num(MAX_PRODUCTS * Den),
   Num(MAX_PRODUCTS * Den + 1), Num(2 * MAX_PRODUCTS * Den)}
ConcurrencyInputs == {Undefined, Num(0), Num(2 * Den), Num(11 * Den)}
StringInputs == {ABSENT, " ", "given"}
SourceInputs ==
  {ABSENT, " ", "amazon-search", "amazon-tech", "ebay-deals", "fashion-api-mens",
   "bogus-source", "Amazon-Search"}

\* ------------------------------------------------------------------- state
VARIABLES
  options,      \* the options object scrapeProducts was called with
  site,         \* the upstream the relay fetches from
  pc,           \* where the call of scrapeAmazonKeywordSearch stands
  target,       \* const target (in 1/Den)
  collected,    \* const collected = []
  page,         \* let page = 1
  requested,    \* the search pages fetchHtml was called for, in call order
  pagesInFlight,\* search-page fetches issued and not yet settled
  limit,        \* the p-limit instance: [concurrency, activeCount, queue]
  task,         \* per product index: "queued", "running" or "settled"
  enriched,     \* per product index: what its limit(...) promise resolved to
  detailCalls,  \* product indexes fetchHtml was called for, in call order
  settled,      \* what the relay answered to each detail fetch, in settle order
  sourceFetches,\* the fetches scrapePredefinedSource issued, in call order
  sourceParsed, \* what source.parser(payload, source) || [] returned
  result,       \* the array scrapeProducts resolved with
  error         \* the message scrapeProducts rejected with

scrapeVars ==
  <<options, site, pc, target, collected, page, requested, pagesInFlight,
    limit, task, enriched, detailCalls, settled, sourceFetches, sourceParsed,
    result, error>>

\* ------------------------------------------------- state of GET /api/deals
VARIABLES
  query,        \* req.query.minRoi
  handler,      \* where the request handler stands
  minRoi,       \* const minRoi (in 1/100)
  fetching,     \* the sources whose fetch has not settled
  upstream,     \* per settled source: what its fetch and parser did
  dealLists,    \* per settled source: what its dealPromise resolved to
  response      \* the body passed to res.json

dealVars == <<query, handler, minRoi, fetching, upstream, dealLists, response>>

\* ------------------------------------------- state of one function call
VARIABLES
  fn,           \* the function that is called
  arg,          \* its argument
  returned      \* what it returned or threw, once it has run

pureVars == <<fn, arg, returned>>

vars == <<scrapeVars, dealVars, pureVars>>

\* No function call is being followed.
NoCall == [k |-> "none"]
Pending == [k |-> "pending"]
Returned(value) == [k |-> "returned", value |-> value]
PureIdle == fn = "" /\ arg = NoCall /\ returned = NoCall

NoResponse == [minRoi |-> 0, count |-> 0, deals |-> <<>>]

\* No request is being served.
DealsIdle ==
  /\ query = Undefined
  /\ handler = "idle"
  /\ minRoi = 0
  /\ fetching = {}
  /\ upstream = <<>>
  /\ dealLists = <<>>
  /\ response = NoResponse

\* The parser of a source has not run; it has run and returned `records`.
NotParsed == [done |-> FALSE, records |-> <<>>]
Parsed(records) == [done |-> TRUE, records |-> records]

NoLimit == [concurrency |-> 0, activeCount |-> 0, queue |-> <<>>]

\* --------------------------------------------------------- pure operations
\* The target count of one run: clampNumber(options.number ?? 10, 1, 500).
Target(opts) ==
  clampNumber(Coalesce(opts.number, Num(10 * Den)), 1 * Den, MAX_PRODUCTS * Den)

\* Mutant: the concurrency option is ignored and the default of 5 is used.
DetailConcurrency_Default(opts) == 5 * Den

\* The cap handed to p-limit: clampNumber(options.concurrency ?? 5, 1, 10).
DetailConcurrency(opts) ==
  clampNumber(Coalesce(opts.concurrency, Num(5 * Den)), 1 * Den, 10 * Den)

\* Mutant: the loop has no page ceiling.
LoopContinues_NoCeiling(coll, tgt, pg) == Len(coll) * Den < tgt

\* while (collected.length < target && page <= MAX_PAGES)
LoopContinues(coll, tgt, pg) == Len(coll) * Den < tgt /\ pg <= MAX_PAGES

\* The source registry; the middle dot of two labels is written as a hyphen.
DEFAULT_SOURCE == "amazon-search"

SourceDefinition(id, label, type, requiresKeyword) ==
  [id |-> id, label |-> label, type |-> type, requiresKeyword |-> requiresKeyword]

SOURCE_DEFINITIONS ==
  <<SourceDefinition("amazon-search", "Amazon keyword search", "amazon-search", TRUE),
    SourceDefinition("amazon-tech", "Amazon - Tech Deals", "html", FALSE),
    SourceDefinition("amazon-fashion", "Amazon - Fashion Deals", "html", FALSE),
    SourceDefinition("ebay-deals", "eBay Daily Deals", "html", FALSE),
    SourceDefinition("fashion-api-mens", "Mens Footwear Feed", "json", FALSE),
    SourceDefinition("fashion-api-womens", "Womens Dresses Feed", "json", FALSE)>>

listSources == SOURCE_DEFINITIONS

\* What find returns for an id without a definition.
NoSource == SourceDefinition("", "", "undefined", FALSE)

\* Mutant: an id without a definition falls back to the default source.
getSourceDefinition_FallsBack(id) ==
  IF \E i \in DOMAIN SOURCE_DEFINITIONS : SOURCE_DEFINITIONS[i].id = id
  THEN SOURCE_DEFINITIONS[CHOOSE i \in DOMAIN SOURCE_DEFINITIONS :
                            /\ SOURCE_DEFINITIONS[i].id = id
                            /\ \A j \in 1..(i - 1) : SOURCE_DEFINITIONS[j].id # id]
  ELSE SOURCE_DEFINITIONS[1]

\* SOURCE_DEFINITIONS.find((source) => source.id === id)
getSourceDefinition(id) ==
  IF \E i \in DOMAIN SOURCE_DEFINITIONS : SOURCE_DEFINITIONS[i].id = id
  THEN SOURCE_DEFINITIONS[CHOOSE i \in DOMAIN SOURCE_DEFINITIONS :
                            /\ SOURCE_DEFINITIONS[i].id = id
                            /\ \A j \in 1..(i - 1) : SOURCE_DEFINITIONS[j].id # id]
  ELSE NoSource

\* (options.source || DEFAULT_SOURCE).trim() || DEFAULT_SOURCE
SourceId(opts) ==
  LET sourceId == Trim(OrElse(opts.source, DEFAULT_SOURCE))
  IN  IF sourceId = "" THEN DEFAULT_SOURCE ELSE sourceId

\* listSources().map((entry) => entry.id).join(', ')
RECURSIVE Join(_)
Join(entries) ==
  IF entries = <<>> THEN ""
  ELSE IF Len(entries) = 1 THEN entries[1].id
  ELSE entries[1].id \o ", " \o Join(Tail(entries))

UnknownSourceMessage(sourceId) ==
  "Unknown source \"" \o sourceId \o "\". Available sources: " \o Join(listSources)

\* What a source's parser returns: records with a price and a list price, in
\* cents, both truthy.
SourceRecord(n, price, originalPrice) ==
  [id |-> <<0, n>>, price |-> Num(price), originalPrice |-> Num(originalPrice),
   thumbnail |-> "thumb", highResImage |-> ABSENT, shortDescription |-> ABSENT,
   fullDescription |-> ABSENT, source |-> ABSENT]

ParsedRecordLists ==
  {<<>>,
   <<SourceRecord(1, 8000, 10000), SourceRecord(2, 10000, 9000),
     SourceRecord(3, 500, 500)>>}

\* fetchJson throws on a non-2xx status; response.json() on an empty body.
fetchJsonError(outcome) ==
  IF outcome = "http-error" THEN "JSON request failed with status"
  ELSE "Unexpected end of JSON input"

\* for (const product of pageResults) { push; if (length >= target) break; }
RECURSIVE Accumulate(_, _, _)
Accumulate(coll, pageResults, tgt) ==
  IF pageResults = <<>> THEN coll
  ELSE LET next == Append(coll, Head(pageResults))
       IN  IF Len(next) * Den >= tgt THEN next
           ELSE Accumulate(next, Tail(pageResults), tgt)

\* The branch taken when enrichment is skipped.
WithoutDetails(product) ==
  [product EXCEPT !.shortDescription = OrElse(product.shortDescription, ""),
                  !.fullDescription = "",
                  !.highResImage = OrElse(product.highResImage, product.thumbnail)]

\* try branch of the limited task: { ...product, ...detail }
MergeDetail(product, detail) ==
  [product EXCEPT !.shortDescription = detail.shortDescription,
                  !.fullDescription = detail.fullDescription,
                  !.highResImage = detail.highResImage]

\* catch branch of the limited task
DegradedProduct(product, message) ==
  [product EXCEPT !.shortDescription = OrElse(product.shortDescription, ""),
                  !.fullDescription = "",
                  !.highResImage = OrElse(product.highResImage, product.thumbnail),
                  !.detailError = message]

\* { ...product, source: label }
WithSource(product, label) ==
  [f \in DOMAIN product \cup {"source"} |->
     IF f = "source" THEN label ELSE product[f]]

\* formatProductRecord(product); prices and savings are in cents.
formatProductRecord(product) ==
  LET price == product.price
      before == product.beforeDiscount
  IN
  [amazonId |-> product.asin,
   thumbnail |-> product.thumbnail,
   highResImageOut |-> OrElse(product.highResImage, product.thumbnail),
   source |-> OrElse(product.source, ""),
   isDiscounted |-> product.isDiscounted,
   price |-> IF price = Null THEN Blank ELSE price,
   beforeDiscount |-> IF before = Null THEN Blank ELSE before,
   savings |-> IF ~FalsyNumber(price) /\ ~FalsyNumber(before) /\ before.v > price.v
               THEN before.v - price.v ELSE 0,
   shortDescriptionOut |-> OrElse(product.shortDescription, ""),
   fullDescriptionOut |-> OrElse(product.fullDescription, "")]

\* enriched.map((product) => formatProductRecord({ ...product, source }))
FormatAll(products) ==
  [i \in 1..Len(products) |->
     formatProductRecord(WithSource(products[i], "Amazon keyword search"))]

\* The object scrapePredefinedSource hands to formatProductRecord.
PredefinedProduct(record, source) ==
  [asin |-> record.id,
   price |-> record.price,
   beforeDiscount |-> record.originalPrice,
   thumbnail |-> OrElse(record.thumbnail, ""),
   highResImage |-> OrElse(OrElse(record.highResImage, record.thumbnail), ""),
   shortDescription |-> OrElse(record.shortDescription, ""),
   fullDescription |-> OrElse(record.fullDescription, ""),
   isDiscounted |-> IF ~FalsyNumber(record.originalPrice) /\ ~FalsyNumber(record.price)
                    THEN record.originalPrice.v > record.price.v
                    ELSE FALSE,
   source |-> OrElse(record.source, source.label)]

\* Mutant: every parsed record is returned, the target is not applied.
PredefinedRecords_All(parsed, source, tgt) ==
  [i \in 1..Len(parsed) |-> formatProductRecord(PredefinedProduct(parsed[i], source))]

\* parsed.slice(0, target).map(...); target is in 1/Den.
PredefinedRecords(parsed, source, tgt) ==
  [i \in 1..Min(Len(parsed), tgt \div Den) |->
     formatProductRecord(PredefinedProduct(parsed[i], source))]

\* Mutant: a task is admitted only while a second slot is free as well.
LimitAdmits_SpareSlot(l) == l.queue # <<>> /\ (l.activeCount + 1) * Den < l.concurrency

\* p-limit admits a queued task while activeCount < concurrency.
LimitAdmits(l) == l.queue # <<>> /\ l.activeCount * Den < l.concurrency

\* ----------------------------------------------------------------- initial
DefaultOptions ==
  [source |-> ABSENT, keyword |-> "given", apiKey |-> "given", number |-> Undefined,
   skipDetails |-> TRUE, concurrency |-> Undefined]

\* Runs that paginate over any upstream and skip the detail pages.
PaginationRuns ==
  {[DefaultOptions EXCEPT !.number = n] : n \in NumberInputs} \X Sites

\* Runs with detail enrichment, over the upstreams small enough to enumerate
\* every completion order of the detail fetches.
EnrichmentRuns ==
  {[DefaultOptions EXCEPT !.number = n, !.concurrency = c, !.skipDetails = FALSE] :
     n \in NumberInputs, c \in ConcurrencyInputs} \X SmallSites

\* Runs whose keyword or API key is missing or blank.
ConfigRuns ==
  {[DefaultOptions EXCEPT !.keyword = k, !.apiKey = a] :
     k \in StringInputs, a \in StringInputs} \X SmallSites

\* Runs on each source, known or not, with and without keyword and API key.
SourceRuns ==
  {[DefaultOptions EXCEPT !.source = s, !.keyword = k, !.apiKey = a, !.number = n] :
     s \in SourceInputs, k \in StringInputs, a \in StringInputs,
     n \in {Undefined, Num(Den), Num(2 * Den + 1)}}
  \X {[perPage |-> 1, total |-> 2]}

Init ==
  /\ \E run \in PaginationRuns \cup EnrichmentRuns \cup ConfigRuns \cup SourceRuns :
       /\ options = run[1]
       /\ site = run[2]
  /\ DealsIdle
  /\ PureIdle
  /\ pc = "called"
  /\ target = 0
  /\ collected = <<>>
  /\ page = 0
  /\ requested = <<>>
  /\ pagesInFlight = 0
  /\ limit = NoLimit
  /\ task = <<>>
  /\ enriched = <<>>
  /\ detailCalls = <<>>
  /\ settled = <<>>
  /\ sourceFetches = <<>>
  /\ sourceParsed = NotParsed
  /\ result = <<>>
  /\ error = ""

\* ----------------------------------------------------------------- actions
Reject(message) ==
  /\ pc' = "rejected"
  /\ error' = message

\* scrapeAmazonKeywordSearch, up to the first test of the while loop.
MissingKeyword ==
  /\ pc = "called"
  /\ getSourceDefinition(SourceId(options)).type = "amazon-search"
  /\ Trim(options.keyword) = ""
  /\ Reject("Keyword is required for the amazon-search source")
  /\ UNCHANGED <<pureVars, dealVars, sourceFetches, sourceParsed, options, site, target, collected, page, requested, pagesInFlight,
                 limit, task, enriched, detailCalls, settled, result>>

MissingApiKey ==
  /\ pc = "called"
  /\ getSourceDefinition(SourceId(options)).type = "amazon-search"
  /\ Trim(options.keyword) # ""
  /\ Trim(options.apiKey) = ""
  /\ Reject("ScrapingAnt API key is required")
  /\ UNCHANGED <<pureVars, dealVars, sourceFetches, sourceParsed, options, site, target, collected, page, requested, pagesInFlight,
                 limit, task, enriched, detailCalls, settled, result>>

Begin ==
  /\ pc = "called"
  /\ getSourceDefinition(SourceId(options)).type = "amazon-search"
  /\ Trim(options.keyword) # ""
  /\ Trim(options.apiKey) # ""
  /\ target' = Target(options)
  /\ collected' = <<>>
  /\ page' = 1
  /\ pc' = "loop"
  /\ UNCHANGED <<pureVars, dealVars, sourceFetches, sourceParsed, options, site, requested, pagesInFlight, limit, task, enriched,
                 detailCalls, settled, result, error>>

\* Mutant: the next page is requested without testing the loop condition.
RequestPage_Untested ==
  /\ pc = "loop"
  /\ requested' = Append(requested, page)
  /\ pagesInFlight' = pagesInFlight + 1
  /\ pc' = "fetching"
  /\ UNCHANGED <<pureVars, dealVars, sourceFetches, sourceParsed, options, site, target, collected, page, limit, task, enriched,
                 detailCalls, settled, result, error>>

\* The loop test holds: build the URL of `page` and call fetchHtml.
RequestPage ==
  /\ pc = "loop"
  /\ LoopContinues(collected, target, page)
  /\ requested' = Append(requested, page)
  /\ pagesInFlight' = pagesInFlight + 1
  /\ pc' = "fetching"
  /\ UNCHANGED <<pureVars, dealVars, sourceFetches, sourceParsed, options, site, target, collected, page, limit, task, enriched,
                 detailCalls, settled, result, error>>

\* The loop test fails: the target is reached or MAX_PAGES pages were read.
LeaveLoop ==
  /\ pc = "loop"
  /\ ~LoopContinues(collected, target, page)
  /\ pc' = "collected"
  /\ UNCHANGED <<pureVars, dealVars, sourceFetches, sourceParsed, options, site, target, collected, page, requested, pagesInFlight,
                 limit, task, enriched, detailCalls, settled, result, error>>

\* Mutant: a failing page is caught and ends the loop like an empty page, so
\* the records of the earlier pages are returned.
PageFetchFails_Break(outcome) ==
  /\ pc = "fetching"
  /\ fetchHtmlThrows(outcome)
  /\ pagesInFlight' = pagesInFlight - 1
  /\ error' = fetchHtmlError(outcome)
  /\ pc' = "collected"
  /\ UNCHANGED <<pureVars, dealVars, sourceFetches, sourceParsed, options, site, target, collected, page, requested, limit, task,
                 enriched, detailCalls, settled, result>>

\* await fetchHtml(searchUrl, ...) throws: the error leaves scrapeProducts.
PageFetchFails(outcome) ==
  /\ pc = "fetching"
  /\ fetchHtmlThrows(outcome)
  /\ pagesInFlight' = pagesInFlight - 1
  /\ Reject(fetchHtmlError(outcome))
  /\ UNCHANGED <<pureVars, dealVars, sourceFetches, sourceParsed, options, site, target, collected, page, requested, limit, task,
                 enriched, detailCalls, settled, result>>

\* Mutant: an empty page is skipped (continue) instead of ending the loop.
PageEmpty_Continue ==
  /\ pc = "fetching"
  /\ parseSearchResults(site, page) = <<>>
  /\ pagesInFlight' = pagesInFlight - 1
  /\ page' = page + 1
  /\ pc' = "loop"
  /\ UNCHANGED <<pureVars, dealVars, sourceFetches, sourceParsed, options, site, target, collected, requested, limit, task,
                 enriched, detailCalls, settled, result, error>>

\* await fetchHtml(searchUrl, ...) returns markup without a card: break.
PageEmpty ==
  /\ pc = "fetching"
  /\ parseSearchResults(site, page) = <<>>
  /\ pagesInFlight' = pagesInFlight - 1
  /\ pc' = "collected"
  /\ UNCHANGED <<pureVars, dealVars, sourceFetches, sourceParsed, options, site, target, collected, page, requested, limit, task,
                 enriched, detailCalls, settled, result, error>>

\* Mutant: the page counter advances by two.
PageAccumulated_SkipPage ==
  /\ pc = "fetching"
  /\ parseSearchResults(site, page) # <<>>
  /\ pagesInFlight' = pagesInFlight - 1
  /\ collected' = Accumulate(collected, parseSearchResults(site, page), target)
  /\ page' = page + 2
  /\ pc' = "loop"
  /\ UNCHANGED <<pureVars, dealVars, sourceFetches, sourceParsed, options, site, target, requested, limit, task, enriched,
                 detailCalls, settled, result, error>>

\* await fetchHtml(searchUrl, ...) returns markup with cards: push, page += 1.
PageAccumulated ==
  /\ pc = "fetching"
  /\ parseSearchResults(site, page) # <<>>
  /\ pagesInFlight' = pagesInFlight - 1
  /\ collected' = Accumulate(collected, parseSearchResults(site, page), target)
  /\ page' = page + 1
  /\ pc' = "loop"
  /\ UNCHANGED <<pureVars, dealVars, sourceFetches, sourceParsed, options, site, target, requested, limit, task, enriched,
                 detailCalls, settled, result, error>>

\* Mutant: an empty collection is returned instead of thrown.
NothingParsed_ReturnEmpty ==
  /\ pc = "collected"
  /\ collected = <<>>
  /\ result' = <<>>
  /\ pc' = "resolved"
  /\ UNCHANGED <<pureVars, dealVars, sourceFetches, sourceParsed, options, site, target, collected, page, requested, pagesInFlight,
                 limit, task, enriched, detailCalls, settled, error>>

\* if (!collected.length) throw
NothingParsed ==
  /\ pc = "collected"
  /\ collected = <<>>
  /\ Reject("No products were parsed from the Amazon response")
  /\ UNCHANGED <<pureVars, dealVars, sourceFetches, sourceParsed, options, site, target, collected, page, requested, pagesInFlight,
                 limit, task, enriched, detailCalls, settled, result>>

\* Mutant: skipDetails is not looked at, the collected products are enriched.
ReturnWithoutDetails_Enriches ==
  /\ pc = "collected"
  /\ collected # <<>>
  /\ options.skipDetails
  /\ limit' = [concurrency |-> DetailConcurrency(options), activeCount |-> 0,
               queue |-> [i \in 1..Len(collected) |-> i]]
  /\ task' = [i \in 1..Len(collected) |-> "queued"]
  /\ enriched' = <<>>
  /\ pc' = "enriching"
  /\ UNCHANGED <<pureVars, dealVars, sourceFetches, sourceParsed, options, site, target, collected, page, requested, pagesInFlight,
                 detailCalls, settled, result, error>>

\* options.skipDetails: map the collected products and return the records.
ReturnWithoutDetails ==
  /\ pc = "collected"
  /\ collected # <<>>
  /\ options.skipDetails
  /\ result' = FormatAll([i \in 1..Len(collected) |-> WithoutDetails(collected[i])])
  /\ pc' = "resolved"
  /\ UNCHANGED <<pureVars, dealVars, sourceFetches, sourceParsed, options, site, target, collected, page, requested, pagesInFlight,
                 limit, task, enriched, detailCalls, settled, error>>

\* Mutant: enrichment starts as soon as a product is collected, while the
\* page loop is still running.
EnrichStart_Early ==
  /\ pc \in {"loop", "collected"}
  /\ collected # <<>>
  /\ ~options.skipDetails
  /\ limit' = [concurrency |-> DetailConcurrency(options), activeCount |-> 0,
               queue |-> [i \in 1..Len(collected) |-> i]]
  /\ task' = [i \in 1..Len(collected) |-> "queued"]
  /\ enriched' = <<>>
  /\ pc' = "enriching"
  /\ UNCHANGED <<pureVars, dealVars, sourceFetches, sourceParsed, options, site, target, collected, page, requested, pagesInFlight,
                 detailCalls, settled, result, error>>

\* enrichWithDetails: pLimit(concurrency), then products.map(limit(...))
\* queues one task per product, in input order.
EnrichStart ==
  /\ pc = "collected"
  /\ collected # <<>>
  /\ ~options.skipDetails
  /\ limit' = [concurrency |-> DetailConcurrency(options), activeCount |-> 0,
               queue |-> [i \in 1..Len(collected) |-> i]]
  /\ task' = [i \in 1..Len(collected) |-> "queued"]
  /\ enriched' = <<>>
  /\ pc' = "enriching"
  /\ UNCHANGED <<pureVars, dealVars, sourceFetches, sourceParsed, options, site, target, collected, page, requested, pagesInFlight,
                 detailCalls, settled, result, error>>

\* Mutant: the task that is started stays in the queue.
DetailStart_NoDequeue ==
  /\ pc = "enriching"
  /\ LimitAdmits(limit)
  /\ LET i == Head(limit.queue)
     IN  /\ limit' = [limit EXCEPT !.activeCount = @ + 1]
         /\ task' = [task EXCEPT ![i] = "running"]
         /\ detailCalls' = Append(detailCalls, i)
  /\ UNCHANGED <<pureVars, dealVars, sourceFetches, sourceParsed, options, site, pc, target, collected, page, requested,
                 pagesInFlight, enriched, settled, result, error>>

\* p-limit dequeues the oldest task; the task calls fetchHtml(product.url, ...).
DetailStart ==
  /\ pc = "enriching"
  /\ LimitAdmits(limit)
  /\ LET i == Head(limit.queue)
     IN  /\ limit' = [limit EXCEPT !.queue = Tail(@), !.activeCount = @ + 1]
         /\ task' = [task EXCEPT ![i] = "running"]
         /\ detailCalls' = Append(detailCalls, i)
  /\ UNCHANGED <<pureVars, dealVars, sourceFetches, sourceParsed, options, site, pc, target, collected, page, requested,
                 pagesInFlight, enriched, settled, result, error>>

\* Mutant: results are pushed in completion order instead of by input index.
Settle_Push(i, outcome, detail, product) ==
  /\ task' = [task EXCEPT ![i] = "settled"]
  /\ settled' = Append(settled, [index |-> i, outcome |-> outcome, detail |-> detail])
  /\ enriched' = Append(enriched, product)
  /\ limit' = [limit EXCEPT !.activeCount = @ - 1]

\* One limited task settles: Promise.all keeps its value at the task's index
\* and p-limit's next() frees the slot.
Settle(i, outcome, detail, product) ==
  /\ task' = [task EXCEPT ![i] = "settled"]
  /\ settled' = Append(settled, [index |-> i, outcome |-> outcome, detail |-> detail])
  /\ enriched' = [j \in DOMAIN enriched \cup {i} |->
                    IF j = i THEN product ELSE enriched[j]]
  /\ limit' = [limit EXCEPT !.activeCount = @ - 1]

\* The detail fetch of product i returns and parseProductDetail yields detail.
DetailSucceeds(i, detail) ==
  /\ pc = "enriching"
  /\ i \in DOMAIN task
  /\ task[i] = "running"
  /\ Settle(i, "ok", detail, MergeDetail(collected[i], detail))
  /\ UNCHANGED <<pureVars, dealVars, sourceFetches, sourceParsed, options, site, pc, target, collected, page, requested,
                 pagesInFlight, detailCalls, result, error>>

\* Mutant: no try/catch around the detail fetch, Promise.all rejects.
DetailFails_Abort(i, outcome) ==
  /\ pc = "enriching"
  /\ i \in DOMAIN task
  /\ task[i] = "running"
  /\ fetchHtmlThrows(outcome)
  /\ Reject(fetchHtmlError(outcome))
  /\ UNCHANGED <<pureVars, dealVars, sourceFetches, sourceParsed, options, site, target, collected, page, requested, pagesInFlight,
                 limit, task, enriched, detailCalls, settled, result>>

\* The detail fetch of product i throws: the catch branch keeps the product.
DetailFails(i, outcome) ==
  /\ pc = "enriching"
  /\ i \in DOMAIN task
  /\ task[i] = "running"
  /\ fetchHtmlThrows(outcome)
  /\ Settle(i, outcome, NoDetail, DegradedProduct(collected[i], fetchHtmlError(outcome)))
  /\ UNCHANGED <<pureVars, dealVars, sourceFetches, sourceParsed, options, site, pc, target, collected, page, requested,
                 pagesInFlight, detailCalls, result, error>>

\* Promise.all resolves once every task has settled; format and return.
ReturnEnriched ==
  /\ pc = "enriching"
  /\ \A i \in DOMAIN task : task[i] = "settled"
  /\ result' = FormatAll(enriched)
  /\ pc' = "resolved"
  /\ UNCHANGED <<pureVars, dealVars, sourceFetches, sourceParsed, options, site, target, collected, page, requested, pagesInFlight,
                 limit, task, enriched, detailCalls, settled, error>>

\* scrapeProducts finds no definition for the source id.
UnknownSource ==
  /\ pc = "called"
  /\ getSourceDefinition(SourceId(options)) = NoSource
  /\ Reject(UnknownSourceMessage(SourceId(options)))
  /\ UNCHANGED <<pureVars, dealVars, sourceFetches, sourceParsed, options, site, target, collected, page,
                 requested, pagesInFlight, limit, task, enriched, detailCalls, settled, result>>

\* A source with one URL and one parser.
Predefined(source) == source.type \in {"html", "json"}

\* Mutant: an HTML source is fetched without an API key.
PredefinedConfigError_KeyNotChecked(source) ==
  source.requiresKeyword /\ Trim(options.keyword) = ""

\* Lines 104-111: the keyword and key tests of scrapePredefinedSource. Every
\* registered source has a url, so the test of line 117 never fails.
PredefinedConfigError(source) ==
  \/ source.requiresKeyword /\ Trim(options.keyword) = ""
  \/ source.type = "html" /\ Trim(options.apiKey) = ""

PredefinedRejects ==
  LET source == getSourceDefinition(SourceId(options))
  IN  /\ pc = "called"
      /\ Predefined(source)
      /\ PredefinedConfigError(source)
      /\ Reject(IF source.requiresKeyword /\ Trim(options.keyword) = ""
                THEN "Keyword is required for the " \o source.id \o " source"
                ELSE "ScrapingAnt API key is required to scrape HTML sources")
      /\ UNCHANGED <<pureVars, dealVars, sourceFetches, sourceParsed, options, site, target, collected, page,
                     requested, pagesInFlight, limit, task, enriched, detailCalls, settled,
                     result>>

\* scrapePredefinedSource up to its await: one fetch, through the relay for an
\* HTML source, direct for a JSON feed.
PredefinedRequest ==
  LET source == getSourceDefinition(SourceId(options))
  IN  /\ pc = "called"
      /\ Predefined(source)
      /\ ~PredefinedConfigError(source)
      /\ target' = Target(options)
      /\ sourceFetches' = Append(sourceFetches,
                                 [source |-> source.id,
                                  via |-> IF source.type = "json" THEN "direct" ELSE "relay"])
      /\ pc' = "source-fetching"
      /\ UNCHANGED <<pureVars, dealVars, sourceParsed, options, site, collected, page, requested,
                     pagesInFlight, limit, task, enriched, detailCalls, settled, result, error>>

\* await fetchJson(...) or await fetchHtml(...) throws.
PredefinedFetchFails(outcome) ==
  LET source == getSourceDefinition(SourceId(options))
  IN  /\ pc = "source-fetching"
      /\ outcome # "ok"
      /\ Reject(IF source.type = "json" THEN fetchJsonError(outcome)
                ELSE fetchHtmlError(outcome))
      /\ UNCHANGED <<pureVars, dealVars, sourceFetches, sourceParsed, options, site, target, collected, page,
                     requested, pagesInFlight, limit, task, enriched, detailCalls, settled,
                     result>>

\* The parser finds no record in the payload.
PredefinedNothingParsed ==
  LET source == getSourceDefinition(SourceId(options))
  IN  /\ pc = "source-fetching"
      /\ sourceParsed' = Parsed(<<>>)
      /\ Reject("No products were parsed from " \o source.label)
      /\ UNCHANGED <<pureVars, dealVars, sourceFetches, options, site, target, collected, page,
                     requested, pagesInFlight, limit, task, enriched, detailCalls, settled,
                     result>>

\* The parser returns records: the first `target` of them are normalised.
PredefinedReturns(parsed) ==
  LET source == getSourceDefinition(SourceId(options))
  IN  /\ pc = "source-fetching"
      /\ parsed # <<>>
      /\ sourceParsed' = Parsed(parsed)
      /\ result' = PredefinedRecords(parsed, source, target)
      /\ pc' = "returned"
      /\ UNCHANGED <<pureVars, dealVars, sourceFetches, options, site, target, collected, page,
                     requested, pagesInFlight, limit, task, enriched, detailCalls, settled,
                     error>>

Next ==
  \/ UnknownSource
  \/ PredefinedRejects
  \/ PredefinedRequest
  \/ \E outcome \in RelayOutcomes : PredefinedFetchFails(outcome)
  \/ PredefinedNothingParsed
  \/ \E parsed \in ParsedRecordLists : PredefinedReturns(parsed)
  \/ MissingKeyword
  \/ MissingApiKey
  \/ Begin
  \/ RequestPage
  \/ LeaveLoop
  \/ \E outcome \in RelayOutcomes : PageFetchFails(outcome)
  \/ PageEmpty
  \/ PageAccumulated
  \/ NothingParsed
  \/ ReturnWithoutDetails
  \/ EnrichStart
  \/ DetailStart
  \/ \E i \in 1..MaxTotal, detail \in DetailPages : DetailSucceeds(i, detail)
  \/ \E i \in 1..MaxTotal, outcome \in RelayOutcomes : DetailFails(i, outcome)
  \/ ReturnEnriched

Spec == Init /\ [][Next]_vars

\* Every fetch that was issued settles and the event loop runs every
\* continuation that is ready: a step that can be taken is taken.
SpecLive == Init /\ [][Next]_vars /\ WF_vars(Next)

\* ------------------------------------------------------------ GET /api/deals
\* Default ROI threshold 0.2, in 1/100.
MIN_ROI == 20

SOURCES ==
  <<[id |-> "amazon-tech", label |-> "Amazon Tech Deals", format |-> "html"],
    [id |-> "amazon-fashion", label |-> "Amazon Fashion Deals", format |-> "html"],
    [id |-> "ebay-deals", label |-> "eBay Daily Deals", format |-> "html"],
    [id |-> "fashion-api-mens", label |-> "Mens Footwear Feed", format |-> "json"],
    [id |-> "fashion-api-womens", label |-> "Womens Dresses Feed", format |-> "json"]>>

SourceIndexes == DOMAIN SOURCES


\* Number(x.toFixed(2)) of the quotient n / d, in 1/100 (n >= 0, d # 0);
\* toFixed rounds the magnitude, ties upwards, and keeps the sign.
Round2(n, d) ==
  IF d > 0 THEN (2 * 100 * n + d) \div (2 * d)
  ELSE -((2 * 100 * n - d) \div (-2 * d))

\* A deal as a parser pushes it; prices are in cents.
ParsedDeal(title, price, originalPrice) ==
  [title |-> title, price |-> Num(price), originalPrice |-> Num(originalPrice)]

\* The parser results the upstreams of the model produce.
ParsedLists ==
  {<<>>,
   <<ParsedDeal("A", 8000, 10000), ParsedDeal("D", 10000, 9000)>>,
   <<ParsedDeal("B", 5000, 5500), ParsedDeal("C", 4000, 10000)>>}

\* What can go wrong in one source's pipeline: fetchSourcePayload throws
\* (network error, non-2xx status, body that is not JSON) or the parser does.
SourceFailures == {"fetch-failed", "parser-threw"}

\* req.query.minRoi values of the model; numbers are in 1/100.
QueryInputs == {Undefined, Text, Num(0), Num(50), Num(-100)}

\* Number(req.query.minRoi) || MIN_ROI
MinRoiOf(value) ==
  LET numeric == ToNumber(value)
  IN  IF numeric.k # "number" \/ numeric.v = 0 THEN MIN_ROI ELSE numeric.v

NullDeal ==
  [source |-> "", title |-> NULL, price |-> Null, originalPrice |-> Null,
   roi |-> 0, potentialProfit |-> 0, error |-> FALSE]

\* Mutant: a deal is kept whatever its margin is.
evaluateDeal_NoMarginCheck(deal, label) ==
  IF \/ FalsyNumber(deal.price)
     \/ FalsyNumber(deal.originalPrice)
  THEN NullDeal
  ELSE [source |-> label, title |-> deal.title, price |-> deal.price,
        originalPrice |-> deal.originalPrice,
        roi |-> Round2(deal.originalPrice.v - deal.price.v, deal.price.v),
        potentialProfit |-> deal.originalPrice.v - deal.price.v,
        error |-> FALSE]

\* evaluateDeal({ ...deal, source: source.label })
evaluateDeal(deal, label) ==
  IF \/ FalsyNumber(deal.price)
     \/ FalsyNumber(deal.originalPrice)
     \/ deal.originalPrice.v <= deal.price.v
  THEN NullDeal
  ELSE [source |-> label, title |-> deal.title, price |-> deal.price,
        originalPrice |-> deal.originalPrice,
        roi |-> Round2(deal.originalPrice.v - deal.price.v, deal.price.v),
        potentialProfit |-> deal.originalPrice.v - deal.price.v,
        error |-> FALSE]

\* Mutant: the filter keeps every evaluated deal, whatever its roi.
KeepsDeal_NoThreshold(deal, threshold) == deal # NullDeal

\* .filter((deal) => deal && deal.roi >= minRoi)
KeepsDeal(deal, threshold) == deal # NullDeal /\ deal.roi >= threshold

RECURSIVE SelectDeals(_, _)
SelectDeals(deals, threshold) ==
  IF deals = <<>> THEN <<>>
  ELSE IF KeepsDeal(Head(deals), threshold)
       THEN <<Head(deals)>> \o SelectDeals(Tail(deals), threshold)
       ELSE SelectDeals(Tail(deals), threshold)

\* The try branch: parsed.map(evaluateDeal).filter(...)
SourceDeals(parsed, label, threshold) ==
  SelectDeals([i \in 1..Len(parsed) |-> evaluateDeal(parsed[i], label)], threshold)

\* The catch branch: the "Feed unavailable" entry of a source.
Placeholder(label) ==
  [source |-> label, title |-> "Feed unavailable", price |-> Null,
   originalPrice |-> Null, roi |-> 0, potentialProfit |-> 0, error |-> TRUE]

\* (await Promise.all(dealPromises)).flat(): the lists in SOURCES order.
RECURSIVE Flat(_, _)
Flat(lists, n) == IF n = 0 THEN <<>> ELSE Flat(lists, n - 1) \o lists[n]

\* deals.sort((a, b) => b.roi - a.roi): a stable sort by descending roi.
RECURSIVE InsertByRoi(_, _)
InsertByRoi(sorted, deal) ==
  IF sorted = <<>> THEN <<deal>>
  ELSE IF Head(sorted).roi >= deal.roi
       THEN <<Head(sorted)>> \o InsertByRoi(Tail(sorted), deal)
       ELSE <<deal>> \o sorted

\* Mutant: the flattened list is sent as it is, in SOURCES order.
SortByRoi_Unsorted(deals) == deals

RECURSIVE SortByRoi(_)
SortByRoi(deals) ==
  IF deals = <<>> THEN <<>>
  ELSE InsertByRoi(SortByRoi(SubSeq(deals, 1, Len(deals) - 1)), deals[Len(deals)])

InitDeals ==
  /\ query \in QueryInputs
  /\ handler = "idle"
  /\ minRoi = 0
  /\ fetching = {}
  /\ upstream = <<>>
  /\ dealLists = <<>>
  /\ response = NoResponse
  /\ PureIdle
  /\ options = DefaultOptions
  /\ site = [perPage |-> 1, total |-> 0]
  /\ pc = "idle"
  /\ target = 0
  /\ collected = <<>>
  /\ page = 0
  /\ requested = <<>>
  /\ pagesInFlight = 0
  /\ limit = NoLimit
  /\ task = <<>>
  /\ enriched = <<>>
  /\ detailCalls = <<>>
  /\ settled = <<>>
  /\ sourceFetches = <<>>
  /\ sourceParsed = NotParsed
  /\ result = <<>>
  /\ error = ""

\* The handler runs up to its await: minRoi is read and SOURCES.map starts
\* every source's async callback, each of which runs up to its fetch.
DealsRequest ==
  /\ handler = "idle"
  /\ minRoi' = MinRoiOf(query)
  /\ fetching' = SourceIndexes
  /\ handler' = "awaiting"
  /\ UNCHANGED <<pureVars, scrapeVars, query, upstream, dealLists, response>>

\* Mutant: the callbacks push onto one shared list as they complete.
SourceSettles_Shared(s, what, list) ==
  /\ fetching' = fetching \ {s}
  /\ upstream' = [j \in DOMAIN upstream \cup {s} |-> IF j = s THEN what ELSE upstream[j]]
  /\ dealLists' = Append(dealLists, list)

\* The callback of source s settles: Promise.all keeps its list at index s.
SourceSettles(s, what, list) ==
  /\ fetching' = fetching \ {s}
  /\ upstream' = [j \in DOMAIN upstream \cup {s} |-> IF j = s THEN what ELSE upstream[j]]
  /\ dealLists' = [j \in DOMAIN dealLists \cup {s} |-> IF j = s THEN list ELSE dealLists[j]]

\* Mutant: no try/catch in the source callback, Promise.all rejects.
SourceFails_Rejects(s, failure) ==
  /\ handler = "awaiting"
  /\ s \in fetching
  /\ handler' = "failed"
  /\ fetching' = fetching \ {s}
  /\ UNCHANGED <<pureVars, scrapeVars, query, minRoi, upstream, dealLists, response>>

\* The fetch or the parser of source s throws: the catch branch answers.
SourceFails(s, failure) ==
  /\ handler = "awaiting"
  /\ s \in fetching
  /\ SourceSettles(s, [failure |-> failure, parsed |-> <<>>],
                    <<Placeholder(SOURCES[s].label)>>)
  /\ UNCHANGED <<pureVars, scrapeVars, query, handler, minRoi, response>>

\* The fetch of source s returns and its parser yields `parsed`.
SourceDelivers(s, parsed) ==
  /\ handler = "awaiting"
  /\ s \in fetching
  /\ SourceSettles(s, [failure |-> "", parsed |-> parsed],
                    SourceDeals(parsed, SOURCES[s].label, minRoi))
  /\ UNCHANGED <<pureVars, scrapeVars, query, handler, minRoi, response>>

\* Promise.all resolves: flatten, sort, res.json.
DealsRespond ==
  /\ handler = "awaiting"
  /\ fetching = {}
  /\ LET deals == SortByRoi(Flat(dealLists, Len(SOURCES)))
     IN  response' = [minRoi |-> minRoi, count |-> Len(deals), deals |-> deals]
  /\ handler' = "responded"
  /\ UNCHANGED <<pureVars, scrapeVars, query, minRoi, fetching, upstream, dealLists>>

NextDeals ==
  \/ DealsRequest
  \/ \E s \in SourceIndexes, failure \in SourceFailures : SourceFails(s, failure)
  \/ \E s \in SourceIndexes, parsed \in ParsedLists : SourceDelivers(s, parsed)
  \/ DealsRespond

SpecDeals == InitDeals /\ [][NextDeals]_vars

\* ---------------------------------------------------------------- fetchHtml
\* A response body is a sequence of lexemes, each counted as one character:
\* white space, a punctuation mark of JSON, a JSON string literal, another
\* JSON literal (number, true, false, null), or any other run of text.
Sp == [t |-> "space", s |-> " "]
Punct(c) == [t |-> "punct", s |-> c]
Str(s) == [t |-> "string", s |-> s]
Lit(s) == [t |-> "literal", s |-> s]
Raw(s) == [t |-> "text", s |-> s]

\* The part of an error body that is quoted in the message.
SnippetLimit == 200

\* rawBody.trim()
RECURSIVE TrimStart(_)
TrimStart(body) ==
  IF body # <<>> /\ Head(body) = Sp THEN TrimStart(Tail(body)) ELSE body

RECURSIVE TrimEnd(_)
TrimEnd(body) ==
  IF body # <<>> /\ body[Len(body)] = Sp
  THEN TrimEnd(SubSeq(body, 1, Len(body) - 1))
  ELSE body

TrimBody(body) == TrimEnd(TrimStart(body))

\* JSON.parse on the flat JSON texts of the model: an object of scalar
\* members, an array of scalars, a scalar; anything else is a SyntaxError.
IsScalar(lexeme) == lexeme.t \in {"string", "literal"}

RECURSIVE ParseMembers(_)
ParseMembers(lexemes) ==
  IF /\ Len(lexemes) >= 3
     /\ lexemes[1].t = "string"
     /\ lexemes[2] = Punct(":")
     /\ IsScalar(lexemes[3])
  THEN LET member == [key |-> lexemes[1].s, value |-> lexemes[3]]
       IN  IF Len(lexemes) = 3 THEN [ok |-> TRUE, members |-> <<member>>]
           ELSE IF lexemes[4] = Punct(",")
           THEN LET rest == ParseMembers(SubSeq(lexemes, 5, Len(lexemes)))
                IN  [ok |-> rest.ok, members |-> <<member>> \o rest.members]
           ELSE [ok |-> FALSE, members |-> <<>>]
  ELSE [ok |-> FALSE, members |-> <<>>]

RECURSIVE ParseElements(_)
ParseElements(lexemes) ==
  IF Len(lexemes) >= 1 /\ IsScalar(lexemes[1])
  THEN IF Len(lexemes) = 1 THEN TRUE
       ELSE lexemes[2] = Punct(",") /\ ParseElements(SubSeq(lexemes, 3, Len(lexemes)))
  ELSE FALSE

SyntaxError == [k |-> "SyntaxError", s |-> "", members |-> <<>>]

JsonParse(text) ==
  LET lexemes == SelectSeq(text, LAMBDA lexeme : lexeme.t # "space")
      n == Len(lexemes)
  IN  IF n >= 2 /\ lexemes[1] = Punct("{") /\ lexemes[n] = Punct("}")
      THEN IF n = 2 THEN [k |-> "object", s |-> "", members |-> <<>>]
           ELSE LET parsed == ParseMembers(SubSeq(lexemes, 2, n - 1))
                IN  IF parsed.ok
                    THEN [k |-> "object", s |-> "", members |-> parsed.members]
                    ELSE SyntaxError
      ELSE IF n >= 2 /\ lexemes[1] = Punct("[") /\ lexemes[n] = Punct("]")
      THEN IF n = 2 \/ ParseElements(SubSeq(lexemes, 2, n - 1))
           THEN [k |-> "array", s |-> "", members |-> <<>>]
           ELSE SyntaxError
      ELSE IF n = 1 /\ IsScalar(lexemes[1])
      THEN [k |-> lexemes[1].t, s |-> lexemes[1].s, members |-> <<>>]
      ELSE SyntaxError

\* payload.content: the value of the last member named content.
RECURSIVE Member(_, _)
Member(members, key) ==
  IF members = <<>> THEN Lit("undefined")
  ELSE IF members[Len(members)].key = key THEN members[Len(members)].value
  ELSE Member(SubSeq(members, 1, Len(members) - 1), key)

\* Mutant: the trimmed body is returned where the raw body is.
UnwrapContent_Trimmed(rawBody, trimmed) ==
  IF trimmed[1] \in {Punct("{"), Punct("[")}
  THEN LET payload == JsonParse(trimmed)
       IN  IF payload.k = "object" /\ Member(payload.members, "content").t = "string"
           THEN <<Raw(Member(payload.members, "content").s)>>
           ELSE IF payload.k = "string" THEN <<Raw(payload.s)>>
           ELSE trimmed
  ELSE trimmed

\* Lines 183-197: a ScrapingAnt JSON envelope is unwrapped, anything else is
\* passed on as it came; a string is returned as the text it holds.
UnwrapContent(rawBody, trimmed) ==
  IF trimmed[1] \in {Punct("{"), Punct("[")}
  THEN LET payload == JsonParse(trimmed)
       IN  IF payload.k = "object" /\ Member(payload.members, "content").t = "string"
           THEN <<Raw(Member(payload.members, "content").s)>>
           ELSE IF payload.k = "string" THEN <<Raw(payload.s)>>
           ELSE rawBody
  ELSE rawBody

\* response.ok
ResponseOk(status) == status \in 200..299

HttpErrorMessage == "ScrapingAnt request failed with status"
EmptyBodyMessage == "ScrapingAnt returned an empty response body"

Thrown(message, status, snippet) ==
  [threw |-> TRUE, message |-> message, status |-> status, snippet |-> snippet,
   text |-> <<>>]
Returns(text) ==
  [threw |-> FALSE, message |-> "", status |-> 0, snippet |-> <<>>, text |-> text]

\* Mutant: an empty body is handed to the parser like any other.
fetchHtml_EmptyAllowed(reply) ==
  LET rawBody == reply.body
  IN  IF ~ResponseOk(reply.status)
      THEN Thrown(HttpErrorMessage, reply.status,
                  IF Len(rawBody) > SnippetLimit
                  THEN SubSeq(rawBody, 1, SnippetLimit) \o <<Raw("...")>>
                  ELSE rawBody)
      ELSE Returns(rawBody)

\* fetchHtml(url, { apiKey, browser, proxyCountry }) on the relay's response.
fetchHtml(reply) ==
  LET rawBody == reply.body
  IN  IF ~ResponseOk(reply.status)
      THEN Thrown(HttpErrorMessage, reply.status,
                  IF Len(rawBody) > SnippetLimit
                  THEN SubSeq(rawBody, 1, SnippetLimit) \o <<Raw("...")>>
                  ELSE rawBody)
      ELSE LET trimmed == TrimBody(rawBody)
           IN  IF trimmed = <<>> THEN Thrown(EmptyBodyMessage, 0, <<>>)
               ELSE Returns(UnwrapContent(rawBody, trimmed))

\* The relay responses of the model.
ResponseStatuses == {200, 204, 301, 404, 500}

Page == <<Raw("<html>"), Sp, Raw("deal"), Raw("</html>")>>
Envelope(value) == <<Punct("{"), Str("content"), Punct(":"), value, Punct("}")>>
ResponseBodies ==
  {<<>>,
   <<Sp, Sp>>,
   Page,
   <<Sp>> \o Page \o <<Sp>>,
   Envelope(Str("<html>page</html>")),
   <<Sp>> \o Envelope(Str("<html>page</html>")) \o <<Sp>>,
   Envelope(Lit("5")),
   Envelope(Lit("null")),
   <<Punct("{"), Str("status"), Punct(":"), Lit("1"), Punct(","), Sp,
     Str("content"), Punct(":"), Str("<p>"), Punct("}")>>,
   <<Punct("{"), Str("error"), Punct(":"), Str("blocked"), Punct("}")>>,
   <<Punct("{"), Punct("}")>>,
   <<Punct("["), Str("content"), Punct(","), Lit("1"), Punct("]")>>,
   <<Punct("{"), Raw("color: red"), Punct("}")>>,
   <<Punct("["), Raw("if lt IE 9"), Punct("]"), Raw("<html>")>>,
   <<Str("content")>>,
   [i \in 1..SnippetLimit |-> Raw("x")],
   [i \in 1..(SnippetLimit + 1) |-> Raw("x")]}

Responses == [status : ResponseStatuses, body : ResponseBodies]

\* --------------------------------------------------- parseDummyJsonProducts
\* Prices of the feed are in cents, discount percentages in 1/Percent of a
\* percent.
\* A number the extractor computes is the fraction n / d (d > 0), or one of
\* Infinity, -Infinity, NaN.
Percent == 2
Rat(n, d) == [k |-> "number", n |-> n, d |-> d]
NotFinite(kind) == [k |-> kind, n |-> 0, d |-> 1]

\* Number(product.price)
FeedPrice(product) ==
  LET price == ToNumber(product.price)
  IN  IF price.k = "number" THEN Rat(price.v, 1) ELSE NotFinite("NaN")

\* Number(product.discountPercentage || 0) > 0
DiscountGiven(product) ==
  LET discount == ToNumber(product.discountPercentage)
  IN  discount.k = "number" /\ discount.v > 0

\* Mutant: without a discount the price itself is taken as the original price.
DerivedOriginal_NoMarkup(product) ==
  LET price == FeedPrice(product)
      discount == product.discountPercentage.v
  IN  IF price.k # "number" THEN price
      ELSE IF ~DiscountGiven(product) THEN Rat(price.n, 1)
      ELSE IF discount < 100 * Percent
           THEN Rat(price.n * 100 * Percent, 100 * Percent - discount)
      ELSE IF discount > 100 * Percent
           THEN Rat(-price.n * 100 * Percent, discount - 100 * Percent)
      ELSE IF price.n > 0 THEN NotFinite("Infinity")
      ELSE IF price.n < 0 THEN NotFinite("-Infinity")
      ELSE NotFinite("NaN")

\* discount > 0 ? price / (1 - discount / 100) : price * 1.25
DerivedOriginal(product) ==
  LET price == FeedPrice(product)
      discount == product.discountPercentage.v
  IN  IF price.k # "number" THEN price
      ELSE IF ~DiscountGiven(product) THEN Rat(price.n * 5, 4)
      ELSE IF discount < 100 * Percent
           THEN Rat(price.n * 100 * Percent, 100 * Percent - discount)
      ELSE IF discount > 100 * Percent
           THEN Rat(-price.n * 100 * Percent, discount - 100 * Percent)
      ELSE IF price.n > 0 THEN NotFinite("Infinity")
      ELSE IF price.n < 0 THEN NotFinite("-Infinity")
      ELSE NotFinite("NaN")

\* !x on a computed number
FalsyRat(x) == x.k = "NaN" \/ (x.k = "number" /\ x.n = 0)

\* a <= b on computed numbers, neither of them NaN
RatLeq(a, b) ==
  IF a.k = "-Infinity" \/ b.k = "Infinity" THEN TRUE
  ELSE IF a.k = "Infinity" \/ b.k = "-Infinity" THEN FALSE
  ELSE a.n * b.d <= b.n * a.d

\* if (!price || !originalPrice || originalPrice <= price) return null
FeedProductDropped(product) ==
  \/ FalsyRat(FeedPrice(product))
  \/ FalsyRat(DerivedOriginal(product))
  \/ RatLeq(DerivedOriginal(product), FeedPrice(product))

\* Number(x.toFixed(2)) of a positive computed number, in cents.
RoundCents(x) ==
  IF x.k = "number" THEN Rat((2 * x.n + x.d) \div (2 * x.d), 1) ELSE x

\* The record the extractor of src/parsers.js returns for a product.
FeedRecord(product) ==
  [id |-> product.id, price |-> FeedPrice(product),
   originalPrice |-> DerivedOriginal(product)]

\* The record the extractor of server.js returns for a product.
ServerFeedRecord(product) ==
  [id |-> product.id, price |-> FeedPrice(product),
   originalPrice |-> RoundCents(DerivedOriginal(product))]

RECURSIVE KeptProducts(_)
KeptProducts(products) ==
  IF products = <<>> THEN <<>>
  ELSE IF FeedProductDropped(Head(products)) THEN KeptProducts(Tail(products))
  ELSE <<Head(products)>> \o KeptProducts(Tail(products))

\* parseDummyJsonProducts(data, source) of src/parsers.js
parseDummyJsonProducts(data) ==
  IF data.k # "feed" THEN <<>>
  ELSE LET kept == KeptProducts(data.products)
       IN  [i \in 1..Len(kept) |-> FeedRecord(kept[i])]

\* parseDummyJsonProducts(data, source) of server.js
ServerParseDummyJsonProducts(data) ==
  IF data.k # "feed" THEN <<>>
  ELSE LET kept == KeptProducts(data.products)
       IN  [i \in 1..Len(kept) |-> ServerFeedRecord(kept[i])]

\* The feed payloads of the model.
FeedPrices == {Undefined, Text, Num(0), Num(1), Num(5000), Num(8000), Num(-1000)}
FeedDiscounts ==
  {Undefined, Text, Num(0), Num(25), Num(20 * Percent), Num(100 * Percent),
   Num(150 * Percent), Num(-5 * Percent)}
FeedProducts(id) ==
  [id : {id}, price : FeedPrices, discountPercentage : FeedDiscounts]
Feed(products) == [k |-> "feed", products |-> products]
Feeds ==
  {[k |-> "null", products |-> <<>>], [k |-> "no-products-array", products |-> <<>>],
   Feed(<<>>)}
  \cup {Feed(<<product>>) : product \in FeedProducts(1)}
  \cup {Feed(<<[id |-> 1, price |-> Num(0), discountPercentage |-> Undefined], product>>) :
          product \in FeedProducts(2)}

\* The deals evaluateDeal is called with; prices are in cents.
DealPrices == {Null, Undefined, Num(0), Num(4000), Num(8000), Num(9000), Num(-1000)}
Deals == [title : {"T"}, price : DealPrices, originalPrice : DealPrices]

\* --------------------------------------------------------------- parsePrice
\* A string is the sequence of its characters.
Digits == {"0", "1", "2", "3", "4", "5", "6", "7", "8", "9"}
DigitValue(c) ==
  CASE c = "0" -> 0 [] c = "1" -> 1 [] c = "2" -> 2 [] c = "3" -> 3 [] c = "4" -> 4
    [] c = "5" -> 5 [] c = "6" -> 6 [] c = "7" -> 7 [] c = "8" -> 8 [] c = "9" -> 9

\* value.replace(/[^0-9.]/g, '')
StripNonNumeric(chars) == SelectSeq(chars, LAMBDA c : c \in Digits \cup {"."})

\* The length of the run of digits a string starts with.
RECURSIVE LeadingDigits(_)
LeadingDigits(chars) ==
  IF chars # <<>> /\ Head(chars) \in Digits THEN 1 + LeadingDigits(Tail(chars)) ELSE 0

\* The number a run of digits denotes, after the digits read so far.
RECURSIVE DecimalValue(_, _)
DecimalValue(soFar, digits) ==
  IF digits = <<>> THEN soFar
  ELSE DecimalValue(10 * soFar + DigitValue(Head(digits)), Tail(digits))

RECURSIVE PowerOfTen(_)
PowerOfTen(n) == IF n = 0 THEN 1 ELSE 10 * PowerOfTen(n - 1)

\* parseFloat on a string of digits and points: the longest prefix that is a
\* decimal literal, NaN when there is none.
parseFloat(numeric) ==
  LET whole == LeadingDigits(numeric)
      rest == SubSeq(numeric, whole + 1, Len(numeric))
      decimals == IF rest # <<>> /\ Head(rest) = "." THEN LeadingDigits(Tail(rest)) ELSE 0
  IN  IF whole = 0 /\ decimals = 0 THEN NotFinite("NaN")
      ELSE Rat(DecimalValue(DecimalValue(0, SubSeq(numeric, 1, whole)),
                            SubSeq(rest, 2, decimals + 1)),
               PowerOfTen(decimals))

\* parsePrice(value); the result is in cents.
parsePrice(value) ==
  IF value.k # "string" \/ value.chars = <<>> THEN Null
  ELSE LET numeric == StripNonNumeric(value.chars)
       IN  IF numeric = <<>> THEN Null
           ELSE IF parseFloat(numeric).k = "NaN" THEN NaN
           ELSE Num(Round2(parseFloat(numeric).n, parseFloat(numeric).d))

\* The texts of the model: every string of at most MaxPriceLength characters
\* over PriceChars, and a missing text.
MaxPriceLength == 3
PriceChars == {"$", ",", ".", "0", "1", "9"}
PriceTexts ==
  {[k |-> "undefined", chars |-> <<>>]}
  \cup {[k |-> "string", chars |-> chars] :
          chars \in UNION {[1..n -> PriceChars] : n \in 0..MaxPriceLength}}

\* -------------------------------------------------------- parseProductDetail
\* A text is a sequence of words and of " ", one per whitespace character.
\* value.replace(/\s+/g, ' ')
RECURSIVE CollapseSpaces(_)
CollapseSpaces(text) ==
  IF Len(text) < 2 THEN text
  ELSE IF text[1] = " " /\ text[2] = " " THEN CollapseSpaces(Tail(text))
  ELSE <<text[1]>> \o CollapseSpaces(Tail(text))

\* .trim()
RECURSIVE TrimSpaces(_)
TrimSpaces(text) ==
  IF text = <<>> THEN text
  ELSE IF Head(text) = " " THEN TrimSpaces(Tail(text))
  ELSE IF text[Len(text)] = " " THEN TrimSpaces(SubSeq(text, 1, Len(text) - 1))
  ELSE text

cleanText(text) == IF text = <<>> THEN <<>> ELSE TrimSpaces(CollapseSpaces(text))

\* featureBullets: the cleaned texts of the list items, the empty ones dropped.
FeatureBullets(items) ==
  SelectSeq([i \in 1..Len(items) |-> cleanText(items[i])], LAMBDA text : text # <<>>)

\* featureBullets.join(' ')
RECURSIVE JoinTexts(_)
JoinTexts(texts) ==
  IF texts = <<>> THEN <<>>
  ELSE IF Len(texts) = 1 THEN texts[1]
  ELSE texts[1] \o <<" ">> \o JoinTexts(Tail(texts))

\* a || b on texts; an attribute the element does not have is undefined.
NoAttribute == [k |-> "undefined", chars |-> <<>>]
Attribute(text) == [k |-> "string", chars |-> text]
TextOrElse(a, b) == IF a = <<>> THEN b ELSE a
AttributeOrEmpty(attribute) == IF attribute.k = "undefined" THEN <<>> ELSE attribute.chars

\* extractFromDynamicImage(raw): the last key of the JSON object, null for a
\* missing or empty attribute, for text that is not JSON (catch) and for JSON
\* without keys.
extractFromDynamicImage(raw) ==
  IF raw.json \in {"absent", "empty"} THEN NULL
  ELSE IF raw.json = "invalid" THEN NULL
  ELSE LET urls == IF raw.json = "object" THEN raw.keys ELSE <<>>
       IN  IF urls = <<>> THEN NULL ELSE OrElse(urls[Len(urls)], NULL)

\* $('img[data-old-hires]').attr('data-old-hires'): the attribute of the
\* first image of the document that has it.
FirstOldHires(document) ==
  IF document.otherOldHires = ABSENT THEN document.landingOldHires
  ELSE IF document.landingOldHires = ABSENT \/ document.otherFirst
       THEN document.otherOldHires
       ELSE document.landingOldHires

\* Mutant: the full description prefers the bullets to the description blocks.
parseProductDetail_BulletsFirst(document) ==
  LET joinedBullets == JoinTexts(FeatureBullets(document.bullets))
      metaDescription == AttributeOrEmpty(document.metaDescription)
  IN  [shortDescription |-> TextOrElse(joinedBullets, metaDescription),
       fullDescription |->
         TextOrElse(joinedBullets,
           TextOrElse(cleanText(document.productDescription),
             TextOrElse(cleanText(document.aplus), metaDescription))),
       highResImage |->
         OrElse(document.landingOldHires,
           OrElse(extractFromDynamicImage(document.landingDynamicImage),
             OrElse(FirstOldHires(document), OrElse(document.landingSrc, NULL))))]

\* parseProductDetail(html), on what the selectors find in the document.
parseProductDetail(document) ==
  LET joinedBullets == JoinTexts(FeatureBullets(document.bullets))
      descriptionBlock == cleanText(document.productDescription)
      aplusDescription == cleanText(document.aplus)
      metaDescription == AttributeOrEmpty(document.metaDescription)
  IN  [shortDescription |-> TextOrElse(joinedBullets, metaDescription),
       fullDescription |->
         TextOrElse(descriptionBlock,
           TextOrElse(aplusDescription,
             TextOrElse(joinedBullets, metaDescription))),
       highResImage |->
         OrElse(document.landingOldHires,
           OrElse(extractFromDynamicImage(document.landingDynamicImage),
             OrElse(FirstOldHires(document), OrElse(document.landingSrc, NULL))))]

\* The documents of the model: every combination of the description elements
\* on a page with one image, and every combination of the image attributes
\* on a page with one description.
MaxBullets == 2
ItemTexts == {<<" ">>, <<"fast">>, <<" ", "light", " ", " ", "case", " ">>}
BulletLists == UNION {[1..n -> ItemTexts] : n \in 0..MaxBullets}
DescriptionTexts == {<<>>, <<" ", " ">>, <<" ", "sturdy", " ", " ", "build", " ">>}
AplusTexts == {<<>>, <<" ">>, <<"from", " ", " ", "the", " ", "brand">>}
MetaContents ==
  {NoAttribute, Attribute(<<>>), Attribute(<<" ">>), Attribute(<<"shop", " ", "now">>)}
DynamicImages ==
  {[json |-> "absent", keys |-> <<>>], [json |-> "empty", keys |-> <<>>],
   [json |-> "invalid", keys |-> <<>>], [json |-> "null", keys |-> <<>>],
   [json |-> "object", keys |-> <<>>], [json |-> "object", keys |-> <<"dynamic-large">>],
   [json |-> "object", keys |-> <<"dynamic-small", "dynamic-large">>]}
DescribedDocuments ==
  [bullets : BulletLists, productDescription : DescriptionTexts, aplus : AplusTexts,
   metaDescription : MetaContents, landingOldHires : {""},
   landingDynamicImage : {[json |-> "object", keys |-> <<"dynamic-large">>]},
   otherOldHires : {ABSENT}, otherFirst : {FALSE}, landingSrc : {"landing-src"}]
IllustratedDocuments ==
  [bullets : {<<<<"fast">>>>}, productDescription : {<<"sturdy">>}, aplus : {<<>>},
   metaDescription : {NoAttribute}, landingOldHires : {ABSENT, "", "landing-hires"},
   landingDynamicImage : DynamicImages, otherOldHires : {ABSENT, "other-hires"},
   otherFirst : BOOLEAN, landingSrc : {ABSENT, "landing-src"}]
DetailDocuments == DescribedDocuments \cup IllustratedDocuments

\* ------------------------------------------------------- one function call
InitPure ==
  /\ \/ fn = "fetchHtml" /\ arg \in Responses
     \/ fn = "parseDummyJsonProducts" /\ arg \in Feeds
     \/ fn = "server.parseDummyJsonProducts" /\ arg \in Feeds
     \/ fn = "evaluateDeal" /\ arg \in Deals
     \/ fn = "parsePrice" /\ arg \in PriceTexts
     \/ fn = "parseProductDetail" /\ arg \in DetailDocuments
  /\ returned = Pending
  /\ DealsIdle
  /\ options = DefaultOptions
  /\ site = [perPage |-> 1, total |-> 0]
  /\ pc = "idle"
  /\ target = 0
  /\ collected = <<>>
  /\ page = 0
  /\ requested = <<>>
  /\ pagesInFlight = 0
  /\ limit = NoLimit
  /\ task = <<>>
  /\ enriched = <<>>
  /\ detailCalls = <<>>
  /\ settled = <<>>
  /\ sourceFetches = <<>>
  /\ sourceParsed = NotParsed
  /\ result = <<>>
  /\ error = ""

Call(name, value) ==
  /\ fn = name
  /\ returned = Pending
  /\ returned' = Returned(value)
  /\ UNCHANGED <<scrapeVars, dealVars, fn, arg>>

CallFetchHtml == Call("fetchHtml", fetchHtml(arg))
CallParseDummyJsonProducts ==
  Call("parseDummyJsonProducts", parseDummyJsonProducts(arg))
CallServerParseDummyJsonProducts ==
  Call("server.parseDummyJsonProducts", ServerParseDummyJsonProducts(arg))
CallEvaluateDeal == Call("evaluateDeal", evaluateDeal(arg, "Feed"))
CallParsePrice == Call("parsePrice", parsePrice(arg))
CallParseProductDetail == Call("parseProductDetail", parseProductDetail(arg))

NextPure ==
  \/ CallFetchHtml
  \/ CallParseDummyJsonProducts
  \/ CallServerParseDummyJsonProducts
  \/ CallEvaluateDeal
  \/ CallParsePrice
  \/ CallParseProductDetail

SpecPure == InitPure /\ [][NextPure]_vars

\* ------------------------------------------------------------------ claims
NoProductsMessage == "No products were parsed from the Amazon response"

\* The products of search pages 1..n of site s, in page order.
RECURSIVE PagesUpTo(_, _)
PagesUpTo(s, n) ==
  IF n = 0 THEN <<>> ELSE PagesUpTo(s, n - 1) \o parseSearchResults(s, n)

\* Detail fetches that have started and not settled.
DetailInFlight == Cardinality({i \in DOMAIN task : task[i] = "running"})

\* The cap the documentation promises: the option clamped into 1..10, 5 when
\* the option is missing.
PromisedCap ==
  IF options.concurrency.k = "undefined" THEN 5 * Den
  ELSE IF options.concurrency.v < 1 * Den THEN 1 * Den
  ELSE IF options.concurrency.v > 10 * Den THEN 10 * Den
  ELSE options.concurrency.v

\* C1: the number of detail fetches in flight never exceeds the concurrency
\* option clamped into [1, 10] (5 when missing).
C1_InFlightWithinCap == DetailInFlight * Den <= PromisedCap

\* A run where the cap binds: as many fetches in flight as the cap allows
\* while a product is still queued.
C1_Witness ==
  /\ pc = "enriching"
  /\ DetailInFlight * Den = PromisedCap
  /\ limit.queue # <<>>

\* C2: what enrichment returns has the length of its input and position i
\* holds the enriched or degraded version of input product i, whatever the
\* order in which the detail fetches settled.
C2_OrderPreserved ==
  /\ \A i \in DOMAIN enriched :
       /\ i \in 1..Len(collected)
       /\ enriched[i].asin = collected[i].asin
  /\ (pc = "resolved" /\ ~options.skipDetails) =>
       /\ DOMAIN enriched = 1..Len(collected)
       /\ Len(result) = Len(collected)
       /\ \A i \in 1..Len(result) : result[i].amazonId = collected[i].asin

\* A run that returned after a later product settled before an earlier one.
C2_Witness ==
  /\ pc = "resolved"
  /\ Len(settled) >= 2
  /\ \E a, b \in 1..Len(settled) : a < b /\ settled[a].index > settled[b].index

StoppedOnEmptyPage ==
  /\ Len(requested) >= 2
  /\ pagesInFlight = 0
  /\ CardsOnPage(site, requested[Len(requested)]) = 0
  /\ error \in {"", NoProductsMessage}

\* C4: an empty page N > 1 ends the run: no page is requested after an
\* empty one, the run does not fail, and the records are those of pages
\* 1..N-1 in page order.
C4_EmptyPageStops ==
  /\ \A k \in 1..(Len(requested) - 1) : CardsOnPage(site, requested[k]) > 0
  /\ StoppedOnEmptyPage =>
       /\ pc # "rejected"
       /\ pc # "loop"
       /\ collected = PagesUpTo(site, Len(requested) - 1)
       /\ pc = "resolved" =>
            /\ Len(result) = Len(collected)
            /\ \A i \in 1..Len(result) : result[i].amazonId = collected[i].asin

\* A run that returned the pages before an empty page N > 1, under target.
C4_Witness ==
  /\ StoppedOnEmptyPage
  /\ pc = "resolved"
  /\ Len(requested) >= 3
  /\ Len(collected) * Den < target

\* C5: the run fails with "no products parsed" exactly when nothing was
\* collected, which is exactly when page 1 has no card; then nothing is
\* returned and no detail fetch is made.
C5_NoProductsIffFirstPageEmpty ==
  /\ error = NoProductsMessage =>
       /\ pc = "rejected"
       /\ requested = <<1>>
       /\ CardsOnPage(site, 1) = 0
       /\ collected = <<>>
       /\ result = <<>>
       /\ limit = NoLimit
       /\ detailCalls = <<>>
  /\ pc = "collected" => (collected = <<>> <=> CardsOnPage(site, 1) = 0)
  /\ pc \in {"enriching", "resolved"} =>
       /\ collected # <<>>
       /\ CardsOnPage(site, 1) > 0
  /\ pc = "resolved" => result # <<>>

C5_Witness == error = NoProductsMessage /\ pc = "rejected"

\* C6: no page beyond MAX_PAGES is requested, and a run that read MAX_PAGES
\* non-empty pages while under target returns all their records.
C6_PageCeiling ==
  /\ \A k \in 1..Len(requested) : requested[k] <= 20
  /\ (Len(requested) = 20 /\ pc \in {"loop", "collected", "enriching", "resolved"}
        /\ CardsOnPage(site, 20) > 0) =>
       /\ error = ""
       /\ collected = Accumulate(<<>>, PagesUpTo(site, 20), target)
  /\ (Len(requested) = 20 /\ pc = "resolved" /\ CardsOnPage(site, 20) > 0) =>
       /\ Len(result) = Len(collected)
       /\ \A i \in 1..Len(result) : result[i].amazonId = collected[i].asin

\* A run that returned after 20 non-empty pages, still under target.
C6_Witness ==
  /\ pc = "resolved"
  /\ Len(requested) = 20
  /\ CardsOnPage(site, 20) > 0
  /\ Len(collected) * Den < target
  /\ Len(result) >= 20

\* C7 (as claimed): the number of records returned never exceeds the
\* effective target.
C7_WithinTarget == pc = "resolved" => Len(result) * Den <= target

\* The effective target the documentation promises for a number option.
PromisedTarget(value) ==
  IF value.k = "undefined" THEN 10 * Den
  ELSE IF value.k = "text" THEN 1 * Den
  ELSE IF value.k = "Infinity" THEN 500 * Den
  ELSE IF value.v < 1 * Den THEN 1 * Den
  ELSE IF value.v > 500 * Den THEN 500 * Den
  ELSE value.v

\* C8 (as claimed): below 1 becomes 1, above 500 becomes 500, inside the
\* range unchanged, missing becomes 10, non-numeric becomes 1.
C8_ClampAsClaimed ==
  page >= 1 => target = PromisedTarget(options.number)

\* C8 (amended): as claimed for finite numbers, while Infinity, which is not
\* finite, becomes 1 like non-numeric input; the target lies in [1, 500].
C8_ClampFinite ==
  page >= 1 =>
    /\ target >= 1 * Den
    /\ target <= 500 * Den
    /\ target = IF options.number.k = "Infinity" THEN 1 * Den
                ELSE PromisedTarget(options.number)

\* A run whose number option was above 500 and was clamped to 500.
C8_Witness ==
  /\ page >= 1
  /\ options.number.k = "number"
  /\ options.number.v > 500 * Den
  /\ target = 500 * Den

\* C9: search pages are fetched one at a time, in the order 1, 2, 3, ...,
\* and a page is requested only after the page before it was inspected.
C9_SequentialPages ==
  /\ pagesInFlight \in {0, 1}
  /\ pagesInFlight = 1 <=> pc = "fetching"
  /\ \A k \in 1..Len(requested) : requested[k] = k
  /\ pc = "fetching" => page = Len(requested)
  /\ pc = "loop" => page = Len(requested) + 1 /\ pagesInFlight = 0

\* A run with a third page in flight after two pages were accumulated.
C9_Witness ==
  /\ pc = "fetching"
  /\ requested = <<1, 2, 3>>
  /\ Len(collected) >= 2

\* The entries of the response that carry the label of source s, in order.
RECURSIVE EntriesOf(_, _)
EntriesOf(deals, label) ==
  IF deals = <<>> THEN <<>>
  ELSE IF Head(deals).source = label
       THEN <<Head(deals)>> \o EntriesOf(Tail(deals), label)
       ELSE EntriesOf(Tail(deals), label)

\* The titles of the parsed deals with a positive margin whose ROI, rounded
\* to 2 decimals, reaches the threshold.
RECURSIVE GoodTitles(_, _)
GoodTitles(parsed, threshold) ==
  IF parsed = <<>> THEN {}
  ELSE LET d == Head(parsed)
       IN  (IF d.originalPrice.v > d.price.v
               /\ Round2(d.originalPrice.v - d.price.v, d.price.v) >= threshold
            THEN {d.title} ELSE {})
           \cup GoodTitles(Tail(parsed), threshold)

\* C10: failing sources never fail GET /api/deals: each failing source
\* contributes exactly one "Feed unavailable" entry (error set, roi 0, null
\* prices) and every other source contributes its own deals.
C10_FailuresBecomePlaceholders ==
  /\ handler # "failed"
  /\ handler = "responded" =>
       \A s \in SourceIndexes :
         LET entries == EntriesOf(response.deals, SOURCES[s].label)
         IN  IF upstream[s].failure # ""
             THEN /\ Len(entries) = 1
                  /\ entries[1].title = "Feed unavailable"
                  /\ entries[1].error
                  /\ entries[1].roi = 0
                  /\ entries[1].price = Null
                  /\ entries[1].originalPrice = Null
             ELSE /\ \A i \in 1..Len(entries) : ~entries[i].error
                  /\ {entries[i].title : i \in 1..Len(entries)}
                       = GoodTitles(upstream[s].parsed, response.minRoi)
                  /\ Len(entries) = Cardinality(GoodTitles(upstream[s].parsed,
                                                           response.minRoi))

\* A response where some sources failed and another delivered a deal.
C10_Witness ==
  /\ handler = "responded"
  /\ \E s, t, u \in SourceIndexes :
       /\ upstream[s].failure = "fetch-failed"
       /\ upstream[t].failure = "parser-threw"
       /\ upstream[u].failure = ""
       /\ EntriesOf(response.deals, SOURCES[u].label) # <<>>

\* C11 as stated: every entry of the deals list of a response has a roi that
\* is at least the minRoi the response reports.
C11_AllEntriesReachMinRoi ==
  handler = "responded" =>
    \A i \in 1..Len(response.deals) : response.deals[i].roi >= response.minRoi

\* C11: every entry of the deals list that is not the "Feed unavailable"
\* entry of a failed source has a roi that is at least the minRoi the
\* response reports; the entry of a failed source has roi 0 whatever minRoi is.
C11_DealsReachMinRoi ==
  handler = "responded" =>
    \A i \in 1..Len(response.deals) :
      IF response.deals[i].error
      THEN response.deals[i].roi = 0
      ELSE response.deals[i].roi >= response.minRoi

\* A response under the default threshold where a parsed deal with a positive
\* margin was filtered out (B, roi 0.1), another was kept (A, roi 0.25) and a
\* failed source left its entry.
C11_Witness ==
  /\ handler = "responded"
  /\ response.minRoi = MIN_ROI
  /\ \E s \in SourceIndexes :
       /\ upstream[s].failure = ""
       /\ \E j \in 1..Len(upstream[s].parsed) : upstream[s].parsed[j].title = "B"
  /\ \E i \in 1..Len(response.deals) : response.deals[i].title = "A"
  /\ \E i \in 1..Len(response.deals) : response.deals[i].error
  /\ \A i \in 1..Len(response.deals) : response.deals[i].title # "B"

\* C12: the deals list of a response is in descending roi order: no entry
\* has a smaller roi than the entry after it, whether the entries are deals
\* or "Feed unavailable" entries and in whatever order the sources settled.
C12_SortedByRoi ==
  handler = "responded" =>
    \A i \in 1..(Len(response.deals) - 1) :
      response.deals[i].roi >= response.deals[i + 1].roi

\* A response whose flattened list was out of order: a failed source's entry
\* (roi 0) came before the deals of a later source in SOURCES order.
C12_Witness ==
  /\ handler = "responded"
  /\ Len(response.deals) >= 3
  /\ \E s, t \in SourceIndexes :
       /\ s < t
       /\ upstream[s].failure # ""
       /\ upstream[t].failure = ""
       /\ dealLists[t] # <<>>
  /\ \E i, j \in 1..Len(response.deals) :
       response.deals[i].roi > response.deals[j].roi /\ response.deals[j].error

\* The messages of the errors fetchHtml throws.
TransportErrors == {fetchHtmlError(outcome) : outcome \in RelayOutcomes \ {"ok"}}

\* C15: a transport error (non-2xx status or empty body) on a search page is
\* fatal for scrapeProducts, also when earlier pages yielded records: the call
\* is rejected with that error, it returns no list, partial or other, and no
\* enrichment is started.
C15_PageErrorIsFatal ==
  /\ error \in TransportErrors =>
       /\ pc = "rejected"
       /\ result = <<>>
       /\ limit = NoLimit
       /\ task = <<>>
       /\ detailCalls = <<>>
       /\ enriched = <<>>
  /\ pc = "rejected" => result = <<>> /\ ~ENABLED Next

\* Page 3 fails after pages 1 and 2 yielded records.
C15_Witness ==
  /\ pc = "rejected"
  /\ error \in TransportErrors
  /\ requested = <<1, 2, 3>>
  /\ Len(collected) >= 2
  /\ ~options.skipDetails

\* The call of fn has run.
Ran(name) == fn = name /\ returned.k = "returned"

\* C16: on a 2xx response with a non-empty trimmed body fetchHtml throws
\* nothing; it parses the body as JSON only when the trimmed body starts with
\* { or [, returns the content field when the parse yields an object with a
\* string content, and returns the raw body unchanged in every other case.
C16_UnwrapOrRaw ==
  (Ran("fetchHtml") /\ ResponseOk(arg.status) /\ TrimBody(arg.body) # <<>>) =>
    LET trimmed == TrimBody(arg.body)
        payload == JsonParse(trimmed)
        wrapped == /\ trimmed[1] \in {Punct("{"), Punct("[")}
                   /\ payload.k = "object"
                   /\ Member(payload.members, "content").t = "string"
    IN  /\ ~returned.value.threw
        /\ wrapped => returned.value.text = <<Raw(Member(payload.members, "content").s)>>
        /\ ~wrapped => returned.value.text = arg.body

\* An envelope with white space around it was unwrapped.
C16_Witness ==
  /\ Ran("fetchHtml")
  /\ arg.status = 200
  /\ arg.body = <<Sp>> \o Envelope(Str("<html>page</html>")) \o <<Sp>>
  /\ returned.value.text = <<Raw("<html>page</html>")>>

\* C17: fetchHtml throws exactly when the status is not 2xx or the trimmed
\* body is empty. A non-2xx status throws whatever the body is, with the
\* status code and at most the first 200 characters of the body; a 2xx status
\* with an empty trimmed body throws the empty-response error; every other
\* response yields text.
C17_FailsIffBadStatusOrEmpty ==
  Ran("fetchHtml") =>
    LET quoted == Min(Len(arg.body), SnippetLimit)
    IN  /\ returned.value.threw <=> (~ResponseOk(arg.status) \/ TrimBody(arg.body) = <<>>)
        /\ ~ResponseOk(arg.status) =>
             /\ returned.value.message = HttpErrorMessage
             /\ returned.value.status = arg.status
             /\ SubSeq(returned.value.snippet, 1, quoted) = SubSeq(arg.body, 1, quoted)
             /\ Len(returned.value.snippet) <= quoted + 1
             /\ Len(returned.value.snippet) > quoted =>
                  returned.value.snippet[quoted + 1] = Raw("...")
        /\ (ResponseOk(arg.status) /\ TrimBody(arg.body) = <<>>) =>
             returned.value.message = EmptyBodyMessage
        /\ ~returned.value.threw => returned.value.text # <<>>

\* A 204 response whose body is white space only was refused.
C17_Witness ==
  /\ Ran("fetchHtml")
  /\ arg.status = 204
  /\ arg.body = <<Sp, Sp>>
  /\ returned.value.threw
  /\ returned.value.message = EmptyBodyMessage

\* A 500 response with a body of more than 200 characters was refused.
C17_WitnessLongBody ==
  /\ Ran("fetchHtml")
  /\ arg.status = 500
  /\ Len(arg.body) > SnippetLimit
  /\ returned.value.threw
  /\ Len(returned.value.snippet) = SnippetLimit + 1

\* The documented rule: the derived original price of a feed product, which is
\* price / (1 - discount / 100) under an explicit positive discount and
\* price * 1.25 otherwise, exceeds the price of the product.
PromisedExceeds(product) ==
  LET price == product.price.v
      discount == product.discountPercentage
  IN  /\ product.price.k = "number"
      /\ IF discount.k = "number" /\ discount.v > 0
         THEN IF discount.v < 100 * Percent
              THEN price * 100 * Percent > price * (100 * Percent - discount.v)
              ELSE IF discount.v = 100 * Percent THEN price > 0
              ELSE price * 100 * Percent < price * (100 * Percent - discount.v)
         ELSE 5 * price > 4 * price

\* The original price of record r is the documented one for product p, exactly
\* or, where the extractor rounds, to the nearest cent.
PromisedOriginal(r, product, rounded) ==
  LET price == product.price.v
      discount == product.discountPercentage
      \* the documented value is n / d
      n == IF discount.k = "number" /\ discount.v > 0
           THEN price * 100 * Percent ELSE 5 * price
      d == IF discount.k = "number" /\ discount.v > 0
           THEN 100 * Percent - discount.v ELSE 4
      original == r.originalPrice
  IN  IF d = 0 THEN original.k = "Infinity"
      ELSE /\ original.k = "number"
           /\ IF rounded
              THEN /\ original.d = 1
                   /\ IF d > 0
                      THEN 2 * original.n * d - 2 * n \in (-d)..d
                      ELSE 2 * original.n * d - 2 * n \in d..(-d)
              ELSE original.n * d = n * original.d

\* C19: for each product of a feed the extractor derives the original price
\* as price / (1 - discount / 100) under an explicit positive discount and as
\* price * 1.25 otherwise, and it emits the product exactly when that value
\* exceeds the price; the emitted records keep the order of the feed.
\* {price: 80, discount: 20} gives 100, {price: 50, discount: 0} gives 62.5,
\* {price: 0} is dropped.
C19_FeedExtraction ==
  ((Ran("parseDummyJsonProducts") \/ Ran("server.parseDummyJsonProducts"))
     /\ arg.k = "feed") =>
    LET products == arg.products
        emitted == {j \in DOMAIN products : PromisedExceeds(products[j])}
    IN  /\ Len(returned.value) = Cardinality(emitted)
        /\ \A i \in DOMAIN returned.value :
             /\ returned.value[i].id \in emitted
             /\ returned.value[i].price = Rat(products[returned.value[i].id].price.v, 1)
             /\ PromisedOriginal(returned.value[i], products[returned.value[i].id],
                                 fn = "server.parseDummyJsonProducts")
        /\ \A i, j \in DOMAIN returned.value : i < j => returned.value[i].id < returned.value[j].id
        /\ \A j \in DOMAIN products :
             LET p == products[j]
             IN  /\ (p.price = Num(8000) /\ p.discountPercentage = Num(20 * Percent)) =>
                      \E i \in DOMAIN returned.value :
                        /\ returned.value[i].id = j
                        /\ returned.value[i].originalPrice.n = 10000 * returned.value[i].originalPrice.d
                 /\ (p.price = Num(5000) /\ p.discountPercentage = Num(0)) =>
                      \E i \in DOMAIN returned.value :
                        /\ returned.value[i].id = j
                        /\ returned.value[i].originalPrice.n = 6250 * returned.value[i].originalPrice.d
                 /\ p.price = Num(0) => \A i \in DOMAIN returned.value : returned.value[i].id # j

\* A feed of a zero-price product and a product of 80 with 20 percent off: one
\* record, with original price 100.
C19_Witness ==
  /\ Ran("parseDummyJsonProducts")
  /\ arg = Feed(<<[id |-> 1, price |-> Num(0), discountPercentage |-> Undefined],
                  [id |-> 2, price |-> Num(8000), discountPercentage |-> Num(20 * Percent)]>>)
  /\ Len(returned.value) = 1
  /\ returned.value[1].id = 2
  /\ returned.value[1].originalPrice.n = 10000 * returned.value[1].originalPrice.d

\* price or originalPrice of a deal is missing: null or undefined.
Missing(value) == value.k \in {"null", "undefined"}

\* C20 as stated: evaluateDeal returns null exactly for a record whose price is
\* missing, whose originalPrice is missing, or whose originalPrice does not
\* strictly exceed its price.
C20_NullIffMissingOrNoMargin ==
  Ran("evaluateDeal") =>
    (returned.value = NullDeal <=>
       \/ Missing(arg.price)
       \/ Missing(arg.originalPrice)
       \/ arg.originalPrice.v <= arg.price.v)

\* C20: evaluateDeal returns null exactly for a record whose price is missing
\* or zero, whose originalPrice is missing or zero, or whose originalPrice does
\* not strictly exceed its price. Any other record is returned with roi =
\* (originalPrice - price) / price rounded to 2 decimals and potentialProfit =
\* originalPrice - price, so the margin of a returned deal is strictly positive.
C20_NullIffFalsyOrNoMargin ==
  Ran("evaluateDeal") =>
    LET margin == arg.originalPrice.v - arg.price.v
        rejected == \/ Missing(arg.price) \/ arg.price.v = 0
                    \/ Missing(arg.originalPrice) \/ arg.originalPrice.v = 0
                    \/ margin <= 0
    IN  /\ returned.value = NullDeal <=> rejected
        /\ ~rejected =>
             /\ returned.value.title = arg.title
             /\ returned.value.price = arg.price
             /\ returned.value.originalPrice = arg.originalPrice
             /\ returned.value.potentialProfit = margin
             /\ returned.value.potentialProfit > 0
             /\ IF arg.price.v > 0
                THEN 2 * (returned.value.roi * arg.price.v - 100 * margin)
                       \in (-arg.price.v)..arg.price.v
                ELSE 2 * (returned.value.roi * arg.price.v - 100 * margin)
                       \in arg.price.v..(-arg.price.v)

\* A deal bought at 80 and listed at 90: roi 0.125 rounds to 0.13.
C20_Witness ==
  /\ Ran("evaluateDeal")
  /\ arg.price = Num(8000)
  /\ arg.originalPrice = Num(9000)
  /\ returned.value.roi = 13
  /\ returned.value.potentialProfit = 1000

\* A deal with price 0 and a positive original price is dropped.
C20_WitnessZeroPrice ==
  /\ Ran("evaluateDeal")
  /\ arg.price = Num(0)
  /\ arg.originalPrice = Num(4000)
  /\ returned.value = NullDeal

\* No request has left the process: no search page, no detail page, no
\* source URL was fetched.
NoFetchIssued ==
  /\ requested = <<>>
  /\ pagesInFlight = 0
  /\ detailCalls = <<>>
  /\ sourceFetches = <<>>
  /\ sourceParsed = NotParsed

\* The ids the documentation lists, and the source the call names.
ValidSourceIds ==
  {"amazon-search", "amazon-tech", "amazon-fashion", "ebay-deals",
   "fashion-api-mens", "fashion-api-womens"}
NamedSource ==
  IF options.source \in {ABSENT, "", " "} THEN "amazon-search" ELSE options.source

\* C13: scrapeProducts with a source id that is not registered rejects with a
\* configuration error whose message names the id and lists every valid
\* source id, and no network fetch is issued.
C13_UnknownSourceRejected ==
  (NamedSource \notin ValidSourceIds /\ pc # "called") =>
    /\ pc = "rejected"
    /\ error = "Unknown source \"" \o NamedSource \o "\". Available sources: "
                 \o "amazon-search, amazon-tech, amazon-fashion, ebay-deals, "
                 \o "fashion-api-mens, fashion-api-womens"
    /\ result = <<>>
    /\ NoFetchIssued

\* The call for "bogus-source" was rejected.
C13_Witness ==
  /\ options.source = "bogus-source"
  /\ pc = "rejected"
  /\ error = "Unknown source \"bogus-source\". Available sources: amazon-search, amazon-tech, amazon-fashion, ebay-deals, fashion-api-mens, fashion-api-womens"
  /\ NoFetchIssued

\* An option string that is missing or blank.
BlankOption(s) == s \in {ABSENT, NULL, "", " "}

\* C14: a configuration error aborts the call before any fetch: a missing or
\* blank keyword on a source that requires one, and a missing or blank API
\* key on a source fetched through the relay (the paginated search and the
\* HTML sources). A JSON source is fetched, directly, also without an API key.
C14_ConfigErrorsBeforeFetch ==
  (NamedSource \in ValidSourceIds /\ pc # "called") =>
    LET requiresKeyword == NamedSource = "amazon-search"
        viaRelay == NamedSource \in {"amazon-search", "amazon-tech", "amazon-fashion",
                                     "ebay-deals"}
        misconfigured == \/ requiresKeyword /\ BlankOption(options.keyword)
                         \/ viaRelay /\ BlankOption(options.apiKey)
        configError == error \in {"Keyword is required for the amazon-search source",
                                  "ScrapingAnt API key is required",
                                  "ScrapingAnt API key is required to scrape HTML sources"}
    IN  /\ misconfigured =>
          /\ pc = "rejected"
          /\ configError
          /\ result = <<>>
          /\ NoFetchIssued
        /\ ~misconfigured => ~configError
        /\ ~viaRelay =>
             sourceFetches = <<[source |-> NamedSource, via |-> "direct"]>>

\* An HTML source was asked for without an API key: rejected, nothing fetched.
C14_Witness ==
  /\ options.source = "amazon-tech"
  /\ options.apiKey = " "
  /\ pc = "rejected"
  /\ error = "ScrapingAnt API key is required to scrape HTML sources"
  /\ NoFetchIssued

\* A JSON feed was asked for without keyword and API key: fetched and returned.
C14_WitnessJson ==
  /\ options.source = "fashion-api-mens"
  /\ options.apiKey = ABSENT
  /\ options.keyword = ABSENT
  /\ pc = "returned"
  /\ Len(result) >= 1
  /\ sourceFetches = <<[source |-> "fashion-api-mens", via |-> "direct"]>>

\* C18 as stated: in every record scrapeProducts returns, isDiscounted is true
\* exactly when price and before-discount price are both present and the
\* second exceeds the first; savings is their difference when isDiscounted and
\* 0 otherwise, and is never negative.
C18_DiscountFieldsConsistent ==
  pc \in {"resolved", "returned"} =>
    \A i \in DOMAIN result :
      LET record == result[i]
          discounted == /\ record.price # Blank
                        /\ record.beforeDiscount # Blank
                        /\ record.beforeDiscount.v > record.price.v
      IN  /\ record.isDiscounted <=> discounted
          /\ record.savings =
               IF record.isDiscounted
               THEN record.beforeDiscount.v - record.price.v ELSE 0
          /\ record.savings >= 0

\* C21: with skipDetails set no detail page is fetched, and the call returns
\* one record per accumulated product, in the same order, each with the
\* uniform shape: the card's own short description or the empty string, an
\* empty full description, and the card's high-res image or, when the card
\* has none, its thumbnail.
C21_SkippedDetailsShape ==
  options.skipDetails =>
    /\ detailCalls = <<>>
    /\ limit = NoLimit
    /\ task = <<>>
    /\ pc # "enriching"
    /\ pc = "resolved" =>
         /\ Len(result) = Len(collected)
         /\ \A i \in 1..Len(result) :
              LET card == collected[i]
              IN  /\ result[i].amazonId = card.asin
                  /\ result[i].shortDescriptionOut \notin {NULL, ABSENT}
                  /\ result[i].shortDescriptionOut =
                       (IF card.shortDescription \in {"", NULL, ABSENT}
                        THEN "" ELSE card.shortDescription)
                  /\ result[i].fullDescriptionOut = ""
                  /\ result[i].highResImageOut =
                       (IF card.highResImage \in {"", NULL, ABSENT}
                        THEN card.thumbnail ELSE card.highResImage)

\* A run without details returned a card with its own high-res image and text
\* and a card with neither.
C21_Witness ==
  /\ options.skipDetails
  /\ pc = "resolved"
  /\ \E i, j \in 1..Len(result) :
       /\ result[i].highResImageOut = "srcset-hires"
       /\ result[j].highResImageOut = "thumb"
       /\ collected[j].highResImage = ""
       /\ result[i].shortDescriptionOut = "card-text"
       /\ result[j].shortDescriptionOut = ""

\* After every character that is not a digit or a point is dropped, the text
\* starts with a number: a digit, or a point followed by a digit.
HoldsNumber(chars) ==
  LET kept == SelectSeq(chars, LAMBDA c : c \in Digits \cup {"."})
  IN  /\ kept # <<>>
      /\ \/ kept[1] \in Digits
         \/ Len(kept) >= 2 /\ kept[1] = "." /\ kept[2] \in Digits

\* C22 as stated: parsePrice returns a non-negative number of 2 decimals for a
\* text that holds a number, and null for every text that holds none, the
\* empty and the missing text included.
C22_ParsePriceAsClaimed ==
  Ran("parsePrice") =>
    IF arg.k = "string" /\ HoldsNumber(arg.chars)
    THEN returned.value.k = "number" /\ returned.value.v >= 0
    ELSE returned.value = Null

\* The call has returned its list or raised its error.
Terminated == pc \in {"resolved", "rejected", "returned"}

\* C23: when every fetch settles, every scrapeProducts call terminates, with
\* a list or with an error, after at most MAX_PAGES search-page fetches and,
\* with enrichment on, once every scheduled detail fetch has settled.
C23_Terminates ==
  /\ <>Terminated
  /\ [](Len(requested) <= MAX_PAGES)
  /\ [](pc = "resolved" /\ ~options.skipDetails =>
          /\ limit.queue = <<>>
          /\ limit.activeCount = 0
          /\ \A i \in DOMAIN task : task[i] = "settled"
          /\ Len(detailCalls) = Len(collected)
          /\ Len(settled) = Len(detailCalls))

\* An enriching call returned after several detail fetches, one of them failed.
C23_Witness ==
  /\ pc = "resolved"
  /\ ~options.skipDetails
  /\ Len(settled) >= 2
  /\ \E i \in DOMAIN settled : settled[i].outcome # "ok"

\* A call returned after reading MAX_PAGES search pages.
C23_WitnessAllPages == pc = "resolved" /\ Len(requested) = MAX_PAGES

\* What source s contributes, from what its own upstream delivered and the
\* request's threshold alone.
Contribution(s) ==
  IF upstream[s].failure # "" THEN <<Placeholder(SOURCES[s].label)>>
  ELSE SourceDeals(upstream[s].parsed, SOURCES[s].label, minRoi)

\* C24: the sources are processed independently. Every source's fetch is
\* started by the request, none waits for another; the response is sent only
\* once all have settled; what a source contributes and the list sent depend
\* on what the sources delivered, not on the order in which they completed.
C24_SourcesIndependent ==
  /\ handler # "idle" =>
       /\ fetching \cup DOMAIN upstream = SourceIndexes
       /\ fetching \cap DOMAIN upstream = {}
  /\ response # NoResponse => handler = "responded"
  /\ handler = "responded" => fetching = {}
  /\ DOMAIN dealLists = DOMAIN upstream
  /\ \A s \in DOMAIN upstream : dealLists[s] = Contribution(s)
  /\ handler = "responded" =>
       response.deals =
         SortByRoi(Flat([s \in SourceIndexes |-> Contribution(s)], Len(SOURCES)))

\* The later sources have settled, one failed and one with deals, while the
\* first source is still in flight.
C24_Witness ==
  /\ handler = "awaiting"
  /\ fetching = {1}
  /\ upstream[2].failure # ""
  /\ upstream[5].failure = ""
  /\ dealLists[5] # <<>>

\* The response of a request whose sources delivered different things.
C24_WitnessResponse ==
  /\ handler = "responded"
  /\ upstream[1].failure = "" /\ upstream[1].parsed # <<>>
  /\ upstream[2].failure # ""
  /\ upstream[3].parsed # upstream[1].parsed /\ upstream[3].parsed # <<>>
  /\ response.count >= 3

\* C25 as stated: in the list returned, a product whose detail fetch failed
\* has its thumbnail as high-res image, an empty full description, the short
\* description of its card (empty if none) and the failure reason; its other
\* fields are those of the card.
C25_FailedItemAsClaimed ==
  (pc = "resolved" /\ ~options.skipDetails) =>
    \A k \in 1..Len(settled) :
      settled[k].outcome # "ok" =>
        LET card == collected[settled[k].index]
            record == result[settled[k].index]
            plain == formatProductRecord(WithSource(card, record.source))
        IN  /\ record.highResImageOut = card.thumbnail
            /\ record.fullDescriptionOut = ""
            /\ record.shortDescriptionOut = OrElse(card.shortDescription, "")
            /\ "detailError" \in DOMAIN record
            /\ record.detailError = fetchHtmlError(settled[k].outcome)
            /\ record.amazonId = plain.amazonId
            /\ record.thumbnail = plain.thumbnail
            /\ record.isDiscounted = plain.isDiscounted
            /\ record.price = plain.price
            /\ record.beforeDiscount = plain.beforeDiscount
            /\ record.savings = plain.savings

\* The first non-empty entry of a list of candidates, `none` if all are empty.
RECURSIVE FirstNonEmpty(_, _, _)
FirstNonEmpty(candidates, empty, none) ==
  IF candidates = <<>> THEN none
  ELSE IF Head(candidates) \in empty THEN FirstNonEmpty(Tail(candidates), empty, none)
  ELSE Head(candidates)

\* The sources of the descriptions and of the image, as the page holds them.
BulletsOf(document) ==
  JoinTexts(SelectSeq([i \in 1..Len(document.bullets) |->
                         TrimSpaces(CollapseSpaces(document.bullets[i]))],
                      LAMBDA text : text # <<>>))
BlockOf(text) == TrimSpaces(CollapseSpaces(text))
MetaOf(document) ==
  IF document.metaDescription.k = "string" THEN document.metaDescription.chars ELSE <<>>
LastDynamicKey(document) ==
  IF document.landingDynamicImage.json = "object" /\ document.landingDynamicImage.keys # <<>>
  THEN document.landingDynamicImage.keys[Len(document.landingDynamicImage.keys)]
  ELSE NULL
ImageCandidates(document, anyOldHires) ==
  <<document.landingOldHires, LastDynamicKey(document), anyOldHires, document.landingSrc>>

\* C26 as stated: the full description is the first non-empty of the joined
\* bullets, the description block, the rich-content block and the
\* meta-description; the high-res image is the first available of the landing
\* image's data-old-hires, the last dynamic-image key, data-old-hires on any
\* image, and the landing image's src, else null.
C26_DetailPriorityAsClaimed ==
  Ran("parseProductDetail") =>
    /\ returned.value.fullDescription =
         FirstNonEmpty(<<BulletsOf(arg), BlockOf(arg.productDescription),
                         BlockOf(arg.aplus), MetaOf(arg)>>, {<<>>}, <<>>)
    /\ returned.value.highResImage =
         FirstNonEmpty(ImageCandidates(arg,
                         FirstNonEmpty(<<arg.landingOldHires, arg.otherOldHires>>,
                                       {"", NULL, ABSENT}, ABSENT)),
                       {"", NULL, ABSENT}, NULL)

\* C26, amended: the full description is the first non-empty of the
\* description block, the rich-content block, the bullets joined with single
\* spaces and the meta-description, the empty string if there is none, and
\* the short description is the joined bullets or else the meta-description.
\* The high-res image is the first available of the landing image's
\* data-old-hires, the last dynamic-image key, the data-old-hires of the first
\* image of the document that has the attribute, and the landing image's src,
\* else null.
C26_DetailPriority ==
  Ran("parseProductDetail") =>
    /\ returned.value.fullDescription =
         FirstNonEmpty(<<BlockOf(arg.productDescription), BlockOf(arg.aplus),
                         BulletsOf(arg), MetaOf(arg)>>, {<<>>}, <<>>)
    /\ returned.value.shortDescription =
         FirstNonEmpty(<<BulletsOf(arg), MetaOf(arg)>>, {<<>>}, <<>>)
    /\ returned.value.highResImage =
         FirstNonEmpty(ImageCandidates(arg, FirstOldHires(arg)), {"", NULL, ABSENT}, NULL)

\* A page with bullets and a description block: the block is the full
\* description, the bullets, joined, are the short one, and the image is the
\* last key of the dynamic-image descriptor.
C26_Witness ==
  /\ Ran("parseProductDetail")
  /\ Len(arg.bullets) = 2
  /\ returned.value.shortDescription = <<"fast", " ", "light", " ", "case">>
  /\ returned.value.fullDescription = <<"sturdy", " ", "build">>
  /\ returned.value.highResImage = "dynamic-large"

\* A page whose only image source is another image's data-old-hires.
C26_WitnessOtherImage ==
  /\ Ran("parseProductDetail")
  /\ arg.landingOldHires = ABSENT
  /\ arg.landingSrc = "landing-src"
  /\ returned.value.highResImage = "other-hires"

\* C27: a single-fetch source issues exactly one fetch, through the relay for
\* an HTML source and direct for a JSON feed, and never a search-page or a
\* detail fetch. When its parser finds no record the call fails with "No
\* products were parsed"; otherwise it returns the first records the parser
\* found, as many whole records as min(target, n) allows, normalised and in
\* the parser's order.
C27_SingleFetchSource ==
  LET source == getSourceDefinition(SourceId(options))
      n == Len(sourceParsed.records)
      most == Min(target, n * Den)
  IN  (source # NoSource /\ Predefined(source)) =>
        /\ requested = <<>> /\ pagesInFlight = 0
        /\ detailCalls = <<>> /\ limit = NoLimit
        /\ Len(sourceFetches) = IF pc = "called" \/ PredefinedConfigError(source) THEN 0 ELSE 1
        /\ \A i \in DOMAIN sourceFetches :
             /\ sourceFetches[i].source = source.id
             /\ sourceFetches[i].via = "relay" <=> source.type = "html"
             /\ sourceFetches[i].via = "direct" <=> source.type = "json"
        /\ (sourceParsed.done /\ n = 0) =>
             /\ pc = "rejected"
             /\ error = "No products were parsed from " \o source.label
             /\ result = <<>>
        /\ pc = "returned" =>
             /\ sourceParsed.done /\ n > 0
             /\ Len(result) * Den <= most /\ most < (Len(result) + 1) * Den
             /\ \A i \in DOMAIN result :
                  /\ result[i].amazonId = sourceParsed.records[i].id
                  /\ result[i].price = sourceParsed.records[i].price
                  /\ result[i].beforeDiscount = sourceParsed.records[i].originalPrice
                  /\ result[i].thumbnail = sourceParsed.records[i].thumbnail
                  /\ result[i].highResImageOut = sourceParsed.records[i].thumbnail
                  /\ result[i].source = source.label
                  /\ result[i].shortDescriptionOut = ""
                  /\ result[i].fullDescriptionOut = ""

\* A JSON feed returned fewer records than its parser found.
C27_Witness ==
  /\ pc = "returned"
  /\ getSourceDefinition(SourceId(options)).type = "json"
  /\ sourceFetches = <<[source |-> SourceId(options), via |-> "direct"]>>
  /\ Len(result) = 2
  /\ Len(sourceParsed.records) = 3

\* An HTML source returned every record, the target being larger.
C27_WitnessHtml ==
  /\ pc = "returned"
  /\ getSourceDefinition(SourceId(options)).type = "html"
  /\ Len(sourceFetches) = 1 /\ sourceFetches[1].via = "relay"
  /\ Len(result) = 3 /\ target > 3 * Den

\* The parser of a source found nothing.
C27_WitnessNothing == pc = "rejected" /\ sourceParsed = Parsed(<<>>)

\* The number of cards on search pages 1..p.
RECURSIVE CardsThrough(_)
CardsThrough(p) == IF p = 0 THEN 0 ELSE CardsThrough(p - 1) + CardsOnPage(site, p)

\* Page p is where pagination stops if its fetch returns: the page is empty,
\* its cards complete the target, or it is page MAX_PAGES.
StopsAt(p) ==
  \/ CardsOnPage(site, p) = 0
  \/ CardsThrough(p) * Den >= target
  \/ p = MAX_PAGES

\* The fetch of the last page requested has failed.
LastPageFailed ==
  pc = "rejected" /\ error \in {fetchHtmlError(o) : o \in RelayOutcomes \ {"ok"}}

\* C28: no search page is requested once the target is reached or a page had
\* no record. Pages are requested in order from 1, and the number of page
\* fetches is the index of the first page where the target is reached, the
\* page is empty or the fetch fails, MAX_PAGES at most.
C28_PageFetchCount ==
  requested # <<>> =>
    /\ Len(requested) <= MAX_PAGES
    /\ \A k \in DOMAIN requested : requested[k] = k
    /\ \A k \in 1..(Len(requested) - 1) : ~StopsAt(k)
    /\ (pc \in {"collected", "enriching", "resolved", "rejected"} /\ ~LastPageFailed) =>
         StopsAt(Len(requested))
    /\ (pc = "loop" /\ StopsAt(Len(requested))) => ~ENABLED RequestPage

\* A run that returned after three pages, the third completing the target.
C28_Witness ==
  /\ pc = "resolved"
  /\ Len(requested) = 3
  /\ CardsOnPage(site, 3) > 0
  /\ CardsThrough(3) * Den >= target
  /\ CardsThrough(2) * Den < target

\* A run that failed on its second page.
C28_WitnessFailure == LastPageFailed /\ Len(requested) = 2 /\ ~StopsAt(2)

\* Enrichment has been scheduled or a detail fetch has been issued.
EnrichmentBegun == limit # NoLimit \/ detailCalls # <<>>

\* C29: enrichment never overlaps pagination. Once enrichment has begun no
\* search-page fetch is in flight, the page loop has ended without an error
\* and no page is requested or record collected any more; a call that failed
\* issued no detail fetch; and every detail fetch is for a record of the
\* final collected list.
C29_EnrichmentAfterPagination ==
  /\ [](EnrichmentBegun =>
          /\ pagesInFlight = 0
          /\ pc \in {"enriching", "resolved"}
          /\ requested # <<>>
          /\ StopsAt(Len(requested))
          /\ ~LoopContinues(collected, target, page) \/ CardsOnPage(site, page) = 0)
  /\ [](pc = "rejected" => ~EnrichmentBegun)
  /\ [](\A k \in DOMAIN detailCalls : detailCalls[k] \in 1..Len(collected))
  /\ [][EnrichmentBegun => requested' = requested /\ collected' = collected]_vars
  /\ [][detailCalls' # detailCalls => pagesInFlight = 0 /\ pc = "enriching"]_vars

\* Detail fetches are under way after a pagination of several pages.
C29_Witness ==
  /\ pc = "enriching"
  /\ Len(requested) >= 2
  /\ detailCalls # <<>>
  /\ limit.queue # <<>>

\* The number of times product i's detail page was fetched.
DetailFetches(i) == Cardinality({k \in DOMAIN detailCalls : detailCalls[k] = i})

\* C30: the detail page of each collected record is fetched exactly once. No
\* record is fetched twice, a failed fetch is not retried, the records not
\* yet fetched are exactly those waiting in the queue, and when the call
\* returns every record has been fetched; a call issues at most MAX_PAGES
\* page fetches and at most one detail fetch per record it returns.
C30_DetailFetchedOnce ==
  /\ Len(requested) <= MAX_PAGES
  /\ \A i \in 1..Len(collected) : DetailFetches(i) <= 1
  /\ \A k \in DOMAIN settled : DetailFetches(settled[k].index) = 1
  /\ \A i \in DOMAIN task :
       /\ task[i] = "queued" <=> DetailFetches(i) = 0
       /\ task[i] = "queued" <=> \E q \in DOMAIN limit.queue : limit.queue[q] = i
  /\ pc = "resolved" =>
       /\ Len(detailCalls) <= Len(result)
       /\ ~options.skipDetails => \A i \in 1..Len(collected) : DetailFetches(i) = 1

\* A call returned after every detail page was fetched once, a failed one
\* included.
C30_Witness ==
  /\ pc = "resolved"
  /\ Len(collected) >= 2
  /\ Len(detailCalls) = Len(collected)
  /\ \E k \in DOMAIN settled : settled[k].outcome # "ok" /\ k < Len(settled)

====
